---- MODULE Spec2Model ----
(***************************************************************************)
(* Socratic Science Tutor (src/app.js, OpenAI variant, lines 1-1800) and   *)
(* its curriculum admin tool (src/admin.js).                               *)
(*                                                                         *)
(* The module holds several specifications over one set of variables:      *)
(*   Spec            the page from its load on: screens, turns, voice      *)
(*   SpecDifficulty  the adaptive difficulty engine driven by scores       *)
(*   SpecParse       one reply, put together from pieces, parsed by a turn *)
(*   SpecConcepts    one concept list parsed by parseConceptString         *)
(*   SpecVoice, SpecDictation   the voice recorder and one dictation       *)
(*   SpecTopic       topic discovery up to the start of a session          *)
(*   SpecAdminData   the admin tool's curriculum list and its file         *)
(*   SpecAdminSave   the admin tool's modal and handleSave                 *)
(* and a few smaller ones, each introduced where it is defined.            *)
(* Each specification leaves the variables it does not use at their        *)
(* initial value.                                                          *)
(***************************************************************************)
EXTENDS Integers, Sequences, FiniteSets, TLC

\* ------------------------------------------------------------------ bounds

\* Longest run of the same score band the difficulty engine is driven through
\* (the counters are unbounded at the ends of the scale).
MaxRun == 4
\* Number of most recent updateDifficultyLevel calls kept for the claims.
DiffWindow == 3
\* Most pieces an AI reply is put together from (SpecParse).
MaxPieces == 3
\* Most pairs in a concept list (SpecConcepts).
MaxPairs == 2
\* Longest conversationHistory a turn or an opening request is started with (Spec).
MaxHistory == 3
\* Most asynchronous calls in flight at a time (Spec).
MaxInFlight == 2
\* curriculum items in a response of SpecCurriculum
MaxItems == 2
\* Most values Date.now() takes while the admin tool is used.
MaxClock == 3

\* ------------------------------------------------------------------ state

VARIABLES
    \* SessionState (src/app.js:13-44)
    apiKey,                  \* null or a key that starts with 'sk-'
    currentTopic,
    questionCount,
    conversationHistory,
    scores,                  \* scoreData.scores
    hintsUsed,               \* scoreData.hintsUsed
    difficultyLevel,
    consecutiveHighScores,
    consecutiveLowScores,
    conceptMastery,
    suggestedSubTopics,      \* each sub-topic is the list of its matchedTopicKeys
    \* the page
    screen,                  \* the screen showScreen left visible
    topicStep,               \* the step showTopicStep left visible
    topicDescription,        \* elements.topicDescription.value
    selectedChips,           \* indices of the chips with class 'selected'
    studentResponse,         \* elements.studentResponse.value
    inputDisabled,           \* .disabled of studentResponse, sendResponseBtn, needHintBtn
    recordBtnDisabled,       \* elements.recordBtn.disabled
    scoreFeedback,           \* elements.scoreFeedback.textContent, null when hidden
    \* VoiceState (src/app.js:1118-1124)
    status,
    context,
    micStream,               \* TRUE when VoiceState.micStream holds a stream
    mediaRecorder,           \* "null", or the state of VoiceState.mediaRecorder
    \* asynchronous calls in flight
    turns,                   \* generateTutorResponse calls awaiting callAI: [isHint]
    micRequests,             \* voiceStart calls awaiting getUserMedia
    voiceJobs,               \* voiceSend calls: [at, context], at "stop" or "whisper"
    topicSearches,           \* handleFindTopics calls awaiting discoverTopics
    curriculumLoads,         \* Start Learning handlers awaiting the curriculum
    openings,                \* generateOpeningQuestion calls awaiting callAI
    summaries,               \* End Session handlers awaiting generateSessionSummary
    \* the curriculum (src/app.js:47, 1560)
    sessionCurriculum,       \* the reference text buildSystemPrompt embeds
    allMatchedKeys,          \* the keys the awaiting Start Learning handler fetches for
    \* inputs and history kept for the claims
    aiReply,                 \* SpecParse: the AI reply the pending turn receives
    conceptInput,            \* SpecConcepts: null or [pairs, str], the concept list to parse
    conceptCall,             \* SpecConcepts: null or [before], the parseConceptString call made
    lastTurn,                \* the last completed turn: null or [response, isHint, before, score, cleanResponse]
    diffCalls,               \* the most recent updateDifficultyLevel calls: [score, before, after]
    curriculumCall,          \* null, or the curriculum fetch made: [response, result] in
                             \* SpecCurriculum, [keys, responses] in SpecStart
    \* the admin tool: application state (src/admin.js:53-61)
    curriculumData,
    currentEditId,           \* null or the id of the item the modal edits
    selectedTopics,
    selectedGrades,
    selectedPdfFile,         \* null or the name of the file
    activeContentTab,
    isAuthenticated,
    hasUnsavedChanges,
    lastLoadedData,          \* null or the data JSON.stringify took a snapshot of
    \* the admin tool: the modal
    modalHidden,             \* dom.modal has class 'hidden'
    curriculumTitle,         \* dom.curriculumTitle.value
    curriculumText,          \* dom.curriculumText.value
    ocrPreview,              \* dom.ocrPreview.value
    \* the admin tool: time, calls in flight and the last call kept for the claims
    now,                     \* the last value Date.now() returned
    adminLoads,              \* loadCurriculum calls awaiting fetch
    analyses,                \* handleSave calls awaiting autoAnalyzeContent:
                             \* [title, content, contentType, pdfFileName]
    adminCall                \* null or the last create, update or delete:
                             \* [op, itemId, before, after, returned]

sessionVars == <<currentTopic, questionCount, conversationHistory, scores, hintsUsed,
                 difficultyLevel, consecutiveHighScores, consecutiveLowScores,
                 conceptMastery>>
topicVars == <<suggestedSubTopics, topicStep, topicDescription, selectedChips>>
chatVars == <<studentResponse, inputDisabled, recordBtnDisabled>>
voiceVars == <<status, context, micStream, mediaRecorder>>
pageVars == <<apiKey, screen, topicVars, chatVars, scoreFeedback, voiceVars>>
asyncVars == <<turns, micRequests, voiceJobs, topicSearches, curriculumLoads, openings,
               summaries>>
curriculumVars == <<sessionCurriculum, allMatchedKeys>>
claimVars == <<aiReply, conceptInput, conceptCall, lastTurn, diffCalls, curriculumCall>>
tutorVars == <<sessionVars, pageVars, asyncVars, curriculumVars, claimVars>>
dataVars == <<curriculumData, hasUnsavedChanges, lastLoadedData>>
modalVars == <<modalHidden, currentEditId, selectedTopics, selectedGrades, selectedPdfFile,
               activeContentTab, curriculumTitle, curriculumText, ocrPreview>>
adminVars == <<isAuthenticated, dataVars, modalVars, now, adminLoads, analyses, adminCall>>
vars == <<tutorVars, adminVars>>

\* ------------------------------------------------------------------ helpers

\* A score is null or an integer: <<>> is null, <<n>> is the integer n.
Null == <<>>
Some(n) == <<n>>
IsNull(score) == score = Null
Val(score) == score[1]

\* Array.prototype.indexOf, 0-based; -1 when absent.
IndexOf(arr, x) ==
    IF \E i \in 1..Len(arr) : arr[i] = x
    THEN (CHOOSE i \in 1..Len(arr) : arr[i] = x /\ \A j \in 1..(i - 1) : arr[j] # x) - 1
    ELSE -1

\* arr[i] for a 0-based index i.
At(arr, i) == arr[i + 1]

\* The last n elements of a sequence (all of it when shorter).
LastN(s, n) == IF Len(s) <= n THEN s ELSE SubSeq(s, Len(s) - n + 1, Len(s))

RECURSIVE Flatten(_)
\* The sequences of ss joined.
Flatten(ss) == IF ss = <<>> THEN <<>> ELSE Head(ss) \o Flatten(Tail(ss))

\* s without its element i.
RemoveAt(s, i) == SubSeq(s, 1, i - 1) \o SubSeq(s, i + 1, Len(s))

\* ------------------------------------------------------------------ text

(* A string is a sequence of characters. Every character is a one-character  *)
(* string, except that the three tag keywords are written as one element     *)
(* each ("SCORE", "CONCEPTS", "FEEDBACK"): no regular expression of the      *)
(* program can match part of a keyword without matching all of it, so a      *)
(* keyword behaves as a run of letters.                                      *)

DigitValue ==
    ("0" :> 0) @@ ("1" :> 1) @@ ("2" :> 2) @@ ("3" :> 3) @@ ("4" :> 4) @@
    ("5" :> 5) @@ ("6" :> 6) @@ ("7" :> 7) @@ ("8" :> 8) @@ ("9" :> 9)

\* \d, \s and the end of the string
IsDigit(c) == c \in DOMAIN DigitValue
IsWs(c) == c \in {" ", "\n"}
CharAt(s, i) == IF i \in 1..Len(s) THEN s[i] ELSE "<end>"
Slice(s, from, to) == IF from > to THEN <<>> ELSE SubSeq(s, from, to)

RECURSIVE SkipWs(_, _)
\* The index after the longest run of whitespace starting at i.
SkipWs(s, i) == IF i <= Len(s) /\ IsWs(s[i]) THEN SkipWs(s, i + 1) ELSE i

RECURSIVE SkipDigits(_, _)
\* The index after the longest run of digits starting at i.
SkipDigits(s, i) == IF i <= Len(s) /\ IsDigit(s[i]) THEN SkipDigits(s, i + 1) ELSE i

RECURSIVE ParseInt(_)
\* parseInt(digits, 10) of a non-empty run of digits.
ParseInt(digits) ==
    IF Len(digits) = 0 THEN 0
    ELSE 10 * ParseInt(SubSeq(digits, 1, Len(digits) - 1)) + DigitValue[digits[Len(digits)]]

RECURSIVE TrimStart(_)
TrimStart(s) == IF Len(s) > 0 /\ IsWs(s[1]) THEN TrimStart(Tail(s)) ELSE s

RECURSIVE TrimEnd(_)
TrimEnd(s) ==
    IF Len(s) > 0 /\ IsWs(s[Len(s)]) THEN TrimEnd(SubSeq(s, 1, Len(s) - 1)) ELSE s

\* String.prototype.trim
Trim(s) == TrimEnd(TrimStart(s))

\* The least element of a non-empty set of integers.
MinOf(S) == CHOOSE x \in S : \A y \in S : x <= y
MaxOf(S) == CHOOSE x \in S : \A y \in S : x >= y

RECURSIVE NextClose(_, _)
\* The index of the first "]" at or after i, 0 when there is none.
NextClose(s, i) ==
    IF i > Len(s) THEN 0 ELSE IF s[i] = "]" THEN i ELSE NextClose(s, i + 1)

RECURSIVE LastBefore(_, _, _)
\* The last index e >= j with none of the characters in stops at j+1..e: the
\* index before the next stop character after j, or the end of the string.
LastBefore(s, j, stops) ==
    IF j >= Len(s) \/ s[j + 1] \in stops THEN j ELSE LastBefore(s, j + 1, stops)

\* The last index of the line that holds index j.
LineEnd(s, j) == LastBefore(s, j, {"\n"})

\* "[" keyword ":" at index i
OpensTag(s, i, keyword) ==
    /\ CharAt(s, i) = "["
    /\ CharAt(s, i + 1) = keyword
    /\ CharAt(s, i + 2) = ":"

\* keyword ":" at index i
HasMarker(s, i, keyword) ==
    /\ CharAt(s, i) = keyword
    /\ CharAt(s, i + 1) = ":"

\* ------------------------------------------------- regular expressions

\* /\[SCORE:\s*(\d+)\s*\]/i anchored at index i: the index of the closing "]",
\* 0 when it does not match there. (src/app.js:894 and 945)
ScoreTagEnd(s, i) ==
    IF ~OpensTag(s, i, "SCORE") THEN 0
    ELSE LET j == SkipWs(s, i + 3)
             k == SkipDigits(s, j)
             m == SkipWs(s, k)
         IN IF k > j /\ CharAt(s, m) = "]" THEN m ELSE 0

\* The digits captured by the score tag that starts at index i.
ScoreTagDigits(s, i) ==
    LET j == SkipWs(s, i + 3)
    IN Slice(s, j, SkipDigits(s, j) - 1)

\* /\[KEYWORD:[^\]]*\]/i anchored at index i: the index of the closing "]" or 0.
\* (src/app.js:946-947)
BracketTagEnd(s, i, keyword) ==
    IF OpensTag(s, i, keyword) THEN NextClose(s, i + 3) ELSE 0

\* /\[KEYWORD:\s*([^\]]+)\]/i anchored at index i: as BracketTagEnd, with at
\* least one character before the "]". (src/app.js:904 and 917)
PayloadTagEnd(s, i, keyword) ==
    LET e == BracketTagEnd(s, i, keyword)
    IN IF e > i + 3 THEN e ELSE 0

\* The group captured by /\[KEYWORD:\s*([^\]]+)\]/ at index i: the text up to the
\* "]" without its leading whitespace; when that text is whitespace only, the
\* greedy \s* gives back its last character.
PayloadTagGroup(s, i, keyword) ==
    LET e == PayloadTagEnd(s, i, keyword)
        j == SkipWs(s, i + 3)
    IN IF j < e THEN Slice(s, j, e - 1) ELSE Slice(s, e - 1, e - 1)

\* Where the lazy (.+?) of the fallback patterns starts, for the marker at
\* index i: at the first character after the whitespace that follows the
\* marker; when only whitespace follows up to the end of the string, \s* gives
\* back characters until (.+?) can start on a blank that is not a line break.
\* 0 when the pattern cannot match at i.
FallbackStart(s, i, keyword) ==
    IF ~HasMarker(s, i, keyword) THEN 0
    ELSE LET j == SkipWs(s, i + 2)
             blanks == {p \in (i + 2)..Len(s) : s[p] = " "}
         IN IF j <= Len(s) THEN j
            ELSE IF blanks = {} THEN 0 ELSE MaxOf(blanks)

\* /KEYWORD:\s*.+?(?=\n|$)/i anchored at index i: the last index matched, 0
\* when it does not match there. (src/app.js:948-949)
FallbackLineEnd(s, i, keyword) ==
    LET j == FallbackStart(s, i, keyword)
    IN IF j = 0 THEN 0 ELSE LineEnd(s, j)

\* The group captured by /CONCEPTS:\s*(.+?)(?:\n|\[|$)/i anchored at index i
\* (which must match there): from the start of (.+?) up to the character
\* before the next "\n" or "[", or the end. (src/app.js:910)
FallbackGroup(s, i, keyword) ==
    LET j == FallbackStart(s, i, keyword)
    IN Slice(s, j, LastBefore(s, j, {"\n", "["}))

\* One pattern anchored at index i: a positive index when it matches there (for
\* the patterns of the cleaning chain, the last index matched), else 0.
MatchEnd(pattern, s, i) ==
    CASE pattern = "score-tag" -> ScoreTagEnd(s, i)
      [] pattern = "concepts-tag" -> BracketTagEnd(s, i, "CONCEPTS")
      [] pattern = "feedback-tag" -> BracketTagEnd(s, i, "FEEDBACK")
      [] pattern = "concepts-line" -> FallbackLineEnd(s, i, "CONCEPTS")
      [] pattern = "feedback-line" -> FallbackLineEnd(s, i, "FEEDBACK")
      [] pattern = "concepts-payload" -> PayloadTagEnd(s, i, "CONCEPTS")
      [] pattern = "feedback-payload" -> PayloadTagEnd(s, i, "FEEDBACK")
      [] pattern = "concepts-fallback" -> FallbackStart(s, i, "CONCEPTS")
      [] pattern = "feedback-fallback" -> FallbackStart(s, i, "FEEDBACK")

RECURSIVE FirstMatch(_, _, _)
\* The first index at or after i where the pattern matches, 0 when none.
FirstMatch(pattern, s, i) ==
    IF i > Len(s) THEN 0
    ELSE IF MatchEnd(pattern, s, i) > 0 THEN i
    ELSE FirstMatch(pattern, s, i + 1)

RECURSIVE RemoveFrom(_, _, _)
\* s.replace(/pattern/gi, '') from index i on: one pass from left to right,
\* the search resuming after each match removed.
RemoveFrom(pattern, s, i) ==
    LET k == FirstMatch(pattern, s, i)
    IN IF k = 0 THEN Slice(s, i, Len(s))
       ELSE Slice(s, i, k - 1) \o RemoveFrom(pattern, s, MatchEnd(pattern, s, k) + 1)

RemoveAll(pattern, s) == RemoveFrom(pattern, s, 1)

\* ------------------------------------------------------- concept mastery

\* conceptMastery is an object: a function from concept names to
\* [score, status]. {} is the function with the empty domain.
EmptyObject == <<>>
Keys(obj) == DOMAIN obj
\* Upsert that keeps no other key.
Upsert_Forgets(obj, key, value) == [k \in {key} |-> value]

\* obj[key] = value (src/app.js:933, 967)
Upsert(obj, key, value) ==
    [k \in Keys(obj) \cup {key} |-> IF k = key THEN value ELSE obj[k]]

\* conceptStr.split(/[,;]+/), without the empty pieces (which match nothing).
\* (src/app.js:957)
RECURSIVE SplitPairs(_)
SplitPairs(s) ==
    LET seps == {k \in 1..Len(s) : s[k] \in {",", ";"}}
    IN IF s = <<>> THEN <<>>
       ELSE IF seps = {} THEN <<s>>
       ELSE LET k == MinOf(seps)
            IN (IF k = 1 THEN <<>> ELSE <<Slice(s, 1, k - 1)>>)
               \o SplitPairs(Slice(s, k + 1, Len(s)))

\* \s*[=:\-]\s*(\d+) right after index b of the pair: the index of the first
\* digit, 0 when it does not match there.
PairDigitsAfter(pair, b) ==
    LET k == SkipWs(pair, b + 1)
        d == SkipWs(pair, k + 1)
    IN IF CharAt(pair, k) \in {"=", ":", "-"} /\ IsDigit(CharAt(pair, d)) THEN d ELSE 0

\* pair.match(/(.+?)\s*[=:\-]\s*(\d+)/): the leftmost start a, and for it the
\* shortest name a..b (no line break in it) that the separator and the digits
\* can follow. <<>> when the pair does not match, else <<a, b, d>> with d the
\* index of the first digit. (src/app.js:959)
PairMatch(pair) ==
    LET cands == {ab \in (1..Len(pair)) \X (1..Len(pair)) :
                    /\ ab[1] <= ab[2]
                    /\ \A x \in ab[1]..ab[2] : pair[x] # "\n"
                    /\ PairDigitsAfter(pair, ab[2]) > 0}
    IN IF cands = {} THEN <<>>
       ELSE LET a == MinOf({ab[1] : ab \in cands})
                b == MinOf({ab[2] : ab \in {x \in cands : x[1] = a}})
            IN <<a, b, PairDigitsAfter(pair, b)>>

\* name.replace(/^["']|["']$/g, ''): one quote off the start and one off the
\* end. (src/app.js:961)
StripQuotes(name) ==
    LET quotes == {"'", "\""}
        n1 == IF Len(name) > 0 /\ name[1] \in quotes THEN Tail(name) ELSE name
    IN IF Len(n1) > 0 /\ n1[Len(n1)] \in quotes THEN SubSeq(n1, 1, Len(n1) - 1) ELSE n1

\* ConceptStatus without the status 'new': a score of 0 is 'low'.
ConceptStatus_LowFromZero(conceptScore) ==
    IF conceptScore >= 70 THEN "high"
    ELSE IF conceptScore >= 50 THEN "medium"
    ELSE "low"

\* src/app.js:964-967
ConceptStatus(conceptScore) ==
    IF conceptScore >= 70 THEN "high"
    ELSE IF conceptScore >= 50 THEN "medium"
    ELSE IF conceptScore >= 1 THEN "low"
    ELSE "new"

\* The body of pairs.forEach for one pair. (src/app.js:958-973)
ApplyPair(mastery, pair) ==
    LET m == PairMatch(pair)
        name == StripQuotes(Trim(Slice(pair, m[1], m[2])))
        conceptScore == ParseInt(Slice(pair, m[3], SkipDigits(pair, m[3]) - 1))
    IN IF m # <<>> /\ name # <<>> /\ conceptScore >= 0 /\ conceptScore <= 100
       THEN Upsert(mastery, name,
                   [score |-> conceptScore, status |-> ConceptStatus(conceptScore)])
       ELSE mastery

RECURSIVE ApplyPairs(_, _)
ApplyPairs(mastery, pairs) ==
    IF pairs = <<>> THEN mastery
    ELSE ApplyPairs(ApplyPair(mastery, Head(pairs)), Tail(pairs))

\* src/app.js:956-974: the conceptMastery that parseConceptString leaves.
ParseConceptString(mastery, conceptStr) ==
    ApplyPairs(mastery, SplitPairs(conceptStr))

\* ------------------------------------------------------- response parser

\* ScienceTopics: topic key -> name. (src/app.js:92-189)
ScienceTopics ==
    ("solar-system" :> "Solar System") @@ ("human-body" :> "Human Body") @@
    ("ecosystems" :> "Ecosystems") @@ ("matter-chemistry" :> "Matter & Chemistry") @@
    ("forces-motion" :> "Forces & Motion") @@ ("electricity" :> "Electricity") @@
    ("weather-climate" :> "Weather & Climate") @@ ("cells-life" :> "Cells & Life")

\* A property every object inherits: ScienceTopics[key] is truthy for it as
\* for a catalog key, and the name of ScienceTopics.constructor is 'Object'.
InheritedKeys == {"constructor"}

\* The name of the concept synthesized from the score, as a string of one
\* element: ScienceTopics[currentTopic]?.name || 'General', then ' basics'.
\* (src/app.js:930-932)
BasicsConcept(topic) ==
    <<IF topic \in DOMAIN ScienceTopics THEN ScienceTopics[topic]
      ELSE IF topic \in InheritedKeys THEN "Object" ELSE "General",
      " basics">>

\* response.match(/\[SCORE:\s*(\d+)\s*\]/i): the score of the first score tag,
\* null when there is none. (src/app.js:894-896)
MatchedScore(response) ==
    LET i == FirstMatch("score-tag", response, 1)
    IN IF i = 0 THEN Null ELSE Some(ParseInt(ScoreTagDigits(response, i)))

\* The concept list found in the response: the payload of the first
\* [CONCEPTS:...] tag, else the fallback pattern's group, else null.
\* (src/app.js:904-915)
MatchedConcepts(response) ==
    LET tag == FirstMatch("concepts-payload", response, 1)
        line == FirstMatch("concepts-fallback", response, 1)
    IN IF tag > 0 THEN Some(PayloadTagGroup(response, tag, "CONCEPTS"))
       ELSE IF line > 0 THEN Some(FallbackGroup(response, line, "CONCEPTS"))
       ELSE Null

\* The feedback found in the response, trimmed; null when there is none.
\* /FEEDBACK:\s*(.+?)(?:\n|$)/i captures up to the end of the line.
\* (src/app.js:917-927)
MatchedFeedback(response) ==
    LET tag == FirstMatch("feedback-payload", response, 1)
        line == FirstMatch("feedback-fallback", response, 1)
    IN IF tag > 0 THEN Some(Trim(PayloadTagGroup(response, tag, "FEEDBACK")))
       ELSE IF line > 0
       THEN LET j == FallbackStart(response, line, "FEEDBACK")
            IN Some(Trim(Slice(response, j, LineEnd(response, j))))
       ELSE Null

\* The canned feedback of a score. (src/app.js:936-941)
CannedFeedback(s) ==
    IF s >= 80 THEN <<"Great understanding! Keep pushing deeper.">>
    ELSE IF s >= 60 THEN <<"Good thinking! You're on the right track.">>
    ELSE IF s >= 40 THEN <<"You're building understanding - keep exploring!">>
    ELSE <<"Don't worry, we'll work through this together!">>

\* CleanResponse without the removal of the feedback tag.
CleanResponse_KeepsFeedbackTag(response) ==
    Trim(RemoveAll("feedback-line",
           RemoveAll("concepts-line",
             RemoveAll("concepts-tag",
               RemoveAll("score-tag", response)))))

\* src/app.js:944-950: the five replacements in their order, then trim.
CleanResponse(response) ==
    Trim(RemoveAll("feedback-line",
           RemoveAll("concepts-line",
             RemoveAll("feedback-tag",
               RemoveAll("concepts-tag",
                 RemoveAll("score-tag", response))))))

\* src/app.js:929-934: the mastery display is kept non-empty.
SynthesizeConcept(mastery, score, count, topic) ==
    IF ~IsNull(score) /\ Cardinality(Keys(mastery)) = 0 /\ count > 1
    THEN Upsert(mastery, BasicsConcept(topic),
                [score |-> Val(score),
                 status |-> IF Val(score) >= 70 THEN "high"
                            ELSE IF Val(score) >= 50 THEN "medium" ELSE "low"])
    ELSE mastery

\* src/app.js:887-954. The result holds what the function returns (score,
\* cleanResponse) and what it leaves in SessionState and on the page.
ParseAndUpdateScore(scoreList, mastery, count, topic, response) ==
    LET score == MatchedScore(response)
        concepts == MatchedConcepts(response)
        parsed == IF IsNull(concepts) THEN mastery
                  ELSE ParseConceptString(mastery, Val(concepts))
        found == MatchedFeedback(response)
        feedback == IF ~IsNull(score) /\ (IsNull(found) \/ found = Some(<<>>))
                    THEN Some(CannedFeedback(Val(score)))
                    ELSE found
    IN [score |-> score,
        cleanResponse |-> CleanResponse(response),
        scores |-> IF IsNull(score) THEN scoreList ELSE Append(scoreList, Val(score)),
        conceptMastery |-> SynthesizeConcept(parsed, score, count, topic),
        feedback |-> feedback]

\* --------------------------------------------------- adaptive difficulty

levels == <<"easy", "medium", "hard", "challenge">>

\* The difficulty fields of SessionState as one record.
DiffState == [level |-> difficultyLevel,
              high |-> consecutiveHighScores,
              low |-> consecutiveLowScores]

\* BumpCounters with a high score leaving the count of low scores alone.
BumpCounters_KeepsLow(d, s) ==
    IF s >= 80 THEN [d EXCEPT !.high = @ + 1]
    ELSE IF s < 50 THEN [d EXCEPT !.low = @ + 1, !.high = 0]
    ELSE [d EXCEPT !.high = 0, !.low = 0]

\* BumpCounters with the middle band leaving both counters alone.
BumpCounters_NoMidReset(d, s) ==
    IF s >= 80 THEN [d EXCEPT !.high = @ + 1, !.low = 0]
    ELSE IF s < 50 THEN [d EXCEPT !.low = @ + 1, !.high = 0]
    ELSE d

\* src/app.js:391-400: the counters follow the band of the score.
BumpCounters(d, s) ==
    IF s >= 80 THEN [d EXCEPT !.high = @ + 1, !.low = 0]
    ELSE IF s < 50 THEN [d EXCEPT !.low = @ + 1, !.high = 0]
    ELSE [d EXCEPT !.high = 0, !.low = 0]

\* RampUp moving up after two high scores already.
RampUp_AfterTwo(d, currentIndex) ==
    IF d.high >= 2 /\ currentIndex < Len(levels) - 1
    THEN [d EXCEPT !.level = At(levels, currentIndex + 1), !.high = 0]
    ELSE d

\* RampUp without the check for the top level: the index wraps around.
RampUp_Wraps(d, currentIndex) ==
    IF d.high >= 3
    THEN [d EXCEPT !.level = At(levels, (currentIndex + 1) % Len(levels)), !.high = 0]
    ELSE d

\* src/app.js:405-409: three high scores in a row move one level up.
RampUp(d, currentIndex) ==
    IF d.high >= 3 /\ currentIndex < Len(levels) - 1
    THEN [d EXCEPT !.level = At(levels, currentIndex + 1), !.high = 0]
    ELSE d

\* RampDown that does not reset the low counter.
RampDown_KeepsCount(d, currentIndex) ==
    IF d.low >= 2 /\ currentIndex > 0
    THEN [d EXCEPT !.level = At(levels, currentIndex - 1)]
    ELSE d

\* src/app.js:411-415: two low scores in a row move one level down.
RampDown(d, currentIndex) ==
    IF d.low >= 2 /\ currentIndex > 0
    THEN [d EXCEPT !.level = At(levels, currentIndex - 1), !.low = 0]
    ELSE d

\* UpdateDifficultyLevel without the null guard: JavaScript compares null as
\* 0, so null < 50 holds.
UpdateDifficultyLevel_NoNullGuard(d, score) ==
    LET s == IF IsNull(score) THEN 0 ELSE Val(score)
        currentIndex == IndexOf(levels, d.level)
    IN RampDown(RampUp(BumpCounters(d, s), currentIndex), currentIndex)

\* src/app.js:386-418. currentIndex is read once, before either ramp.
UpdateDifficultyLevel(d, score) ==
    IF IsNull(score) THEN d
    ELSE LET currentIndex == IndexOf(levels, d.level)
         IN RampDown(RampUp(BumpCounters(d, Val(score)), currentIndex), currentIndex)

\* The scores the engine is driven with: both sides of each band edge, the ends
\* of the scale, an out-of-range integer, and null.
ScoreInputs == {Null} \cup {Some(n) : n \in {0, 49, 50, 79, 80, 100, 150}}

\* ------------------------------------------------------- session state

\* The per-session fields of SessionState as one record.
Session ==
    [currentTopic |-> currentTopic,
     questionCount |-> questionCount,
     conversationHistory |-> conversationHistory,
     scores |-> scores,
     hintsUsed |-> hintsUsed,
     difficultyLevel |-> difficultyLevel,
     consecutiveHighScores |-> consecutiveHighScores,
     consecutiveLowScores |-> consecutiveLowScores,
     conceptMastery |-> conceptMastery]

\* SessionState is the record st.
SetSessionInit(st) ==
    /\ currentTopic = st.currentTopic
    /\ questionCount = st.questionCount
    /\ conversationHistory = st.conversationHistory
    /\ scores = st.scores
    /\ hintsUsed = st.hintsUsed
    /\ difficultyLevel = st.difficultyLevel
    /\ consecutiveHighScores = st.consecutiveHighScores
    /\ consecutiveLowScores = st.consecutiveLowScores
    /\ conceptMastery = st.conceptMastery

\* SessionState becomes the record st.
SetSession(st) ==
    /\ currentTopic' = st.currentTopic
    /\ questionCount' = st.questionCount
    /\ conversationHistory' = st.conversationHistory
    /\ scores' = st.scores
    /\ hintsUsed' = st.hintsUsed
    /\ difficultyLevel' = st.difficultyLevel
    /\ consecutiveHighScores' = st.consecutiveHighScores
    /\ consecutiveLowScores' = st.consecutiveLowScores
    /\ conceptMastery' = st.conceptMastery

\* FreshSession with the level set to hard.
FreshSession_StartsHard(topic) ==
    [currentTopic |-> topic,
     questionCount |-> 0,
     conversationHistory |-> <<>>,
     scores |-> <<>>,
     hintsUsed |-> 0,
     difficultyLevel |-> "hard",
     consecutiveHighScores |-> 0,
     consecutiveLowScores |-> 0,
     conceptMastery |-> EmptyObject]

\* The per-session fields as the object literal and the Start Learning handler
\* set them. (src/app.js:13-44, 1543-1557)
FreshSession(topic) ==
    [currentTopic |-> topic,
     questionCount |-> 0,
     conversationHistory |-> <<>>,
     scores |-> <<>>,
     hintsUsed |-> 0,
     difficultyLevel |-> "medium",
     consecutiveHighScores |-> 0,
     consecutiveLowScores |-> 0,
     conceptMastery |-> EmptyObject]

HintMarker == "[Student requested a hint] "
DefaultHintText == <<"I need help with this question.">>

\* src/app.js:707-712: the user turn generateTutorResponse pushes.
UserTurn(studentMessage, isHintRequest) ==
    [role |-> "user",
     content |-> IF isHintRequest
                 THEN <<HintMarker>> \o (IF studentMessage = <<>> THEN DefaultHintText
                                         ELSE studentMessage)
                 ELSE studentMessage]

\* src/app.js:704-720: generateTutorResponse up to its await.
BeginTurn(st, studentMessage, isHintRequest) ==
    [st EXCEPT !.conversationHistory = Append(@, UserTurn(studentMessage, isHintRequest))]

\* src/app.js:783-788: the opening question replaces the history.
OpeningReceived(st, opening) ==
    [st EXCEPT !.conversationHistory = <<[role |-> "assistant", content |-> opening]>>,
               !.questionCount = 1]

\* What the parser returns and shows for reply in session st.
TurnParse(st, reply) ==
    ParseAndUpdateScore(st.scores, st.conceptMastery, st.questionCount, st.currentTopic, reply)

\* ApplyParse without the increment of questionCount.
ApplyParse_NoCount(st, p, isHintRequest) ==
    LET d == UpdateDifficultyLevel([level |-> st.difficultyLevel,
                                    high |-> st.consecutiveHighScores,
                                    low |-> st.consecutiveLowScores], p.score)
    IN [st EXCEPT
          !.scores = p.scores,
          !.conceptMastery = p.conceptMastery,
          !.difficultyLevel = d.level,
          !.consecutiveHighScores = d.high,
          !.consecutiveLowScores = d.low,
          !.hintsUsed = IF isHintRequest THEN @ + 1 ELSE @,
          !.conversationHistory = Append(@, [role |-> "assistant", content |-> p.cleanResponse])]

\* ApplyParse with hint turns left out of the difficulty adjustment.
ApplyParse_HintKeepsLevel(st, p, isHintRequest) ==
    LET d == UpdateDifficultyLevel([level |-> st.difficultyLevel,
                                    high |-> st.consecutiveHighScores,
                                    low |-> st.consecutiveLowScores],
                                   IF isHintRequest THEN Null ELSE p.score)
    IN [st EXCEPT
          !.scores = p.scores,
          !.conceptMastery = p.conceptMastery,
          !.difficultyLevel = d.level,
          !.consecutiveHighScores = d.high,
          !.consecutiveLowScores = d.low,
          !.hintsUsed = IF isHintRequest THEN @ + 1 ELSE @,
          !.conversationHistory = Append(@, [role |-> "assistant", content |-> p.cleanResponse]),
          !.questionCount = @ + 1]

\* src/app.js:726-738: generateTutorResponse after callAI returned, p being
\* what parseAndUpdateScore made of the reply.
ApplyParse(st, p, isHintRequest) ==
    LET d == UpdateDifficultyLevel([level |-> st.difficultyLevel,
                                    high |-> st.consecutiveHighScores,
                                    low |-> st.consecutiveLowScores], p.score)
    IN [st EXCEPT
          !.scores = p.scores,
          !.conceptMastery = p.conceptMastery,
          !.difficultyLevel = d.level,
          !.consecutiveHighScores = d.high,
          !.consecutiveLowScores = d.low,
          !.hintsUsed = IF isHintRequest THEN @ + 1 ELSE @,
          !.conversationHistory = Append(@, [role |-> "assistant", content |-> p.cleanResponse]),
          !.questionCount = @ + 1]

FinishTurn(st, reply, isHintRequest) == ApplyParse(st, TurnParse(st, reply), isHintRequest)

\* The record kept of a completed turn.
TurnRecord(st, reply, p, isHintRequest) ==
    Some([response |-> reply,
          isHint |-> isHintRequest,
          before |-> st,
          score |-> p.score,
          cleanResponse |-> p.cleanResponse])

\* src/app.js:1001-1003: a feedback text, when there is one, replaces the one
\* shown.
ShowFeedback(shown, feedback) ==
    IF IsNull(feedback) \/ feedback = Some(<<>>) THEN shown ELSE feedback

\* ------------------------------------------------------ topic discovery

NullTopic == "null"
\* Object.keys(ScienceTopics)[0] (src/app.js:92-93)
FirstTopicKey == "solar-system"
IsTopicKey(key) == key \in DOMAIN ScienceTopics
\* if (ScienceTopics[key]) (src/app.js:536, 557, 1563)
HasTopic(key) == IsTopicKey(key) \/ key \in InheritedKeys

RECURSIVE ChosenSubTopics(_, _, _)
\* updateSelectedSubTopics: the sub-topics of the selected chips, in chip
\* order, from chip i on. (src/app.js:520-524)
ChosenSubTopics(subtopics, chips, i) ==
    IF i > Len(subtopics) THEN <<>>
    ELSE (IF i \in chips THEN <<subtopics[i]>> ELSE <<>>)
         \o ChosenSubTopics(subtopics, chips, i + 1)

selectedSubTopics == ChosenSubTopics(suggestedSubTopics, selectedChips, 1)

\* The catalog keys the selected sub-topics match, in the order met: the keys
\* keyCount counts. For an inherited key, keyCount[key] || 0 is the inherited
\* value, to which + 1 appends a character, and a string that is no number is
\* never > bestCount. (src/app.js:534-551)
MatchedKeys(selected) == SelectSeq(Flatten(selected), IsTopicKey)

\* determinePrimaryTopic (src/app.js:533-563): the key counted most often, the
\* one met first among equals; without any, the first key of the first
\* selected sub-topic that ScienceTopics has a value for, or the first
\* catalog key.
DeterminePrimaryTopic(selected) ==
    LET keys == MatchedKeys(selected)
        keyCount(key) == Cardinality({i \in 1..Len(keys) : keys[i] = key})
        best == {i \in 1..Len(keys) :
                    \A j \in 1..Len(keys) : keyCount(keys[j]) <= keyCount(keys[i])}
    IN IF keys # <<>> THEN keys[MinOf(best)]
       ELSE IF selected # <<>>
            THEN LET firstKeys == SelectSeq(selected[1], HasTopic)
                 IN IF firstKeys # <<>> THEN firstKeys[1] ELSE FirstTopicKey
            ELSE "solar-system"

\* ------------------------------------------------------------- curriculum

CurriculumLimit == 8000
TruncationMarker ==
    <<"\n", "[", ".", ".", ".", "t", "r", "u", "n", "c", "a", "t", "e", "d", "]">>

\* n characters of text.
Text(n) == [k \in 1..n |-> "c"]

\* `\n--- ${item.title} ---\n${item.content}\n` (src/app.js:76)
ItemBlock(item) ==
    <<"\n", "-", "-", "-", " ">> \o item.title \o <<" ", "-", "-", "-", "\n">>
    \o item.content \o <<"\n">>

\* The filter of items.forEach. (src/app.js:72-74)
ItemMatches(item, topicKey, gradeLevel) ==
    item.isActive /\ topicKey \in item.topics /\ gradeLevel \in item.grades

\* combinedContent after items.forEach. (src/app.js:68-78)
RECURSIVE CombinedContent(_, _, _)
CombinedContent(items, topicKey, gradeLevel) ==
    IF items = <<>> THEN <<>>
    ELSE (IF ItemMatches(Head(items), topicKey, gradeLevel) THEN ItemBlock(Head(items))
          ELSE <<>>)
         \o CombinedContent(Tail(items), topicKey, gradeLevel)

\* FetchRelevantCurriculum with a text in place of '' for a response that is
\* not ok.
FetchRelevantCurriculum_ErrorText(response, topicKey, gradeLevel) ==
    IF ~response.ok THEN <<"e">>
    ELSE LET combinedContent == CombinedContent(response.items, topicKey, gradeLevel)
         IN Trim(IF Len(combinedContent) > CurriculumLimit
                 THEN SubSeq(combinedContent, 1, CurriculumLimit) \o TruncationMarker
                 ELSE combinedContent)

\* fetchRelevantCurriculum for the response. (src/app.js:54-89)
FetchRelevantCurriculum(response, topicKey, gradeLevel) ==
    IF ~response.ok THEN <<>>
    ELSE LET combinedContent == CombinedContent(response.items, topicKey, gradeLevel)
         IN Trim(IF Len(combinedContent) > CurriculumLimit
                 THEN SubSeq(combinedContent, 1, CurriculumLimit) \o TruncationMarker
                 ELSE combinedContent)

\* The response to a fetch of curriculum.json that the site does not serve.
NoCurriculumFile == [ok |-> FALSE, items |-> <<>>]

RECURSIVE Distinct(_)
\* The elements of s in the order they are first met, each once.
Distinct(s) ==
    IF s = <<>> THEN <<>>
    ELSE LET rest == Distinct(SubSeq(s, 1, Len(s) - 1))
         IN IF \E i \in 1..Len(rest) : rest[i] = s[Len(s)] THEN rest
            ELSE Append(rest, s[Len(s)])

\* allMatchedKeys: the keys of the selected sub-topics that ScienceTopics has
\* a value for, as the Set keeps them. (src/app.js:1560-1565)
AllMatchedKeys(selected) == Distinct(SelectSeq(Flatten(selected), HasTopic))

RECURSIVE CombinedCurriculum(_, _, _)
\* combinedCurriculum after the loop over the keys, responses[k] being the
\* response to the fetch for keys[k]. (src/app.js:1567-1571)
CombinedCurriculum(keys, responses, gradeLevel) ==
    IF keys = <<>> THEN <<>>
    ELSE LET c == FetchRelevantCurriculum(Head(responses), Head(keys), gradeLevel)
         IN (IF c # <<>> THEN <<"\n">> \o c ELSE <<>>)
            \o CombinedCurriculum(Tail(keys), Tail(responses), gradeLevel)

\* ------------------------------------------------------------ voice input

\* VoiceState as one record.
VoiceState ==
    [status |-> status, context |-> context, micStream |-> micStream,
     mediaRecorder |-> mediaRecorder]

IdleVoice ==
    [status |-> "idle", context |-> "null", micStream |-> FALSE, mediaRecorder |-> "null"]

SetVoiceInit(v) ==
    /\ status = v.status
    /\ context = v.context
    /\ micStream = v.micStream
    /\ mediaRecorder = v.mediaRecorder

SetVoice(v) ==
    /\ status' = v.status
    /\ context' = v.context
    /\ micStream' = v.micStream
    /\ mediaRecorder' = v.mediaRecorder

\* voiceCancel (src/app.js:1344-1363)
VoiceCancel(v) ==
    IF v.status = "idle" THEN v
    ELSE [status |-> "idle",
          context |-> "null",
          micStream |-> FALSE,
          mediaRecorder |-> IF v.mediaRecorder \in {"recording", "paused"}
                            THEN "inactive" ELSE v.mediaRecorder]

\* recordBtn.disabled after the updateVoiceUI call that follows a change of
\* status to newStatus. (src/app.js:1388-1396)
MicAfterVoiceUI(newStatus, disabled) == IF newStatus = "idle" THEN FALSE ELSE disabled

\* The voice controls of a screen can be used: they are shown while the
\* recording of that screen runs, and enabled until it is sent.
\* (src/app.js:1397-1436)
VoiceControlsUsable(ctx) ==
    /\ screen = ctx
    /\ context = ctx
    /\ status \in {"recording", "paused"}

\* ------------------------------------------------------------- the page

\* A key that passed the check of the Start Session handler.
ValidKey == Some("sk-")

StudentText == <<"a">>
OpeningQuestion == <<"q">>

\* The session after the opening question (src/app.js:1528-1586).
OpenedSession == OpeningReceived(FreshSession("solar-system"), OpeningQuestion)

\* The page of a session on the chat screen whose topic is solar-system, with
\* the input controls disabled (a turn is pending) or not.
ChatPage(busy) ==
    /\ apiKey = ValidKey
    /\ screen = "chat"
    /\ suggestedSubTopics = << <<"solar-system">> >>
    /\ selectedChips = {1}
    /\ topicStep = "select"
    /\ topicDescription = StudentText
    /\ studentResponse = <<>>
    /\ inputDisabled = busy
    /\ recordBtnDisabled = busy
    /\ SetVoiceInit(IdleVoice)

\* No asynchronous call but turns is in flight.
OnlyTurnsInFlight ==
    /\ micRequests = 0
    /\ voiceJobs = <<>>
    /\ topicSearches = 0
    /\ curriculumLoads = 0
    /\ openings = 0
    /\ summaries = 0

\* -------------------------------------------------------------- admin tool

\* The admin page as its script leaves it, signed out. (src/admin.js:53-61)
NoAdminSession ==
    /\ isAuthenticated = FALSE
    /\ curriculumData = <<>>
    /\ hasUnsavedChanges = FALSE
    /\ lastLoadedData = Null
    /\ modalHidden = TRUE
    /\ currentEditId = Null
    /\ selectedTopics = <<>>
    /\ selectedGrades = <<>>
    /\ selectedPdfFile = Null
    /\ activeContentTab = "text"
    /\ curriculumTitle = <<>>
    /\ curriculumText = <<>>
    /\ ocrPreview = <<>>
    /\ now = 0
    /\ adminLoads = 0
    /\ analyses = <<>>
    /\ adminCall = Null

\* The fields of curriculumData that the create, update and delete functions
\* work on, as one record.
AdminData == [curriculumData |-> curriculumData, hasUnsavedChanges |-> hasUnsavedChanges]

\* curriculumData.findIndex(d => d.id === itemId), 0 for -1.
FindIndex(data, itemId) ==
    LET found == {i \in 1..Len(data) : data[i].id = itemId}
    IN IF found = {} THEN 0 ELSE MinOf(found)

\* The item createCurriculumItem makes at time t. (src/admin.js:354-365)
NewItem(data, t) ==
    [id |-> t,
     title |-> data.title,
     content |-> data.content,
     contentType |-> data.contentType,
     pdfFileName |-> data.pdfFileName,
     topics |-> data.topics,
     grades |-> data.grades,
     isActive |-> TRUE,
     createdAt |-> t,
     updatedAt |-> t]

\* createCurriculumItem(data) at time t: the item is put first.
\* (src/admin.js:353-372)
CreateCurriculumItem(st, data, t) ==
    [curriculumData |-> <<NewItem(data, t)>> \o st.curriculumData,
     hasUnsavedChanges |-> TRUE,
     returned |-> TRUE]

\* UpdateCurriculumItem that sets the flag for an id it does not find.
UpdateCurriculumItem_FlagsUnknown(st, itemId, data, t) ==
    LET index == FindIndex(st.curriculumData, itemId)
    IN IF index = 0
       THEN [curriculumData |-> st.curriculumData, hasUnsavedChanges |-> TRUE,
             returned |-> FALSE]
       ELSE [curriculumData |->
                 [st.curriculumData EXCEPT ![index] =
                     [@ EXCEPT !.title = data.title,
                               !.content = data.content,
                               !.contentType = data.contentType,
                               !.pdfFileName = data.pdfFileName,
                               !.topics = data.topics,
                               !.grades = data.grades,
                               !.updatedAt = t]],
             hasUnsavedChanges |-> TRUE,
             returned |-> TRUE]

\* updateCurriculumItem(itemId, data) at time t, for data with a pdfFileName,
\* as handleSave passes it. (src/admin.js:374-402)
UpdateCurriculumItem(st, itemId, data, t) ==
    LET index == FindIndex(st.curriculumData, itemId)
    IN IF index = 0
       THEN [curriculumData |-> st.curriculumData,
             hasUnsavedChanges |-> st.hasUnsavedChanges,
             returned |-> FALSE]
       ELSE [curriculumData |->
                 [st.curriculumData EXCEPT ![index] =
                     [@ EXCEPT !.title = data.title,
                               !.content = data.content,
                               !.contentType = data.contentType,
                               !.pdfFileName = data.pdfFileName,
                               !.topics = data.topics,
                               !.grades = data.grades,
                               !.updatedAt = t]],
             hasUnsavedChanges |-> TRUE,
             returned |-> TRUE]

\* DeleteCurriculumItem that takes the item out of curriculumData.
DeleteCurriculumItem_Removes(st, itemId, t) ==
    LET index == FindIndex(st.curriculumData, itemId)
    IN IF index = 0
       THEN [curriculumData |-> st.curriculumData,
             hasUnsavedChanges |-> st.hasUnsavedChanges,
             returned |-> FALSE]
       ELSE [curriculumData |-> RemoveAt(st.curriculumData, index),
             hasUnsavedChanges |-> TRUE,
             returned |-> TRUE]

\* deleteCurriculumItem(itemId) at time t. (src/admin.js:404-422)
DeleteCurriculumItem(st, itemId, t) ==
    LET index == FindIndex(st.curriculumData, itemId)
    IN IF index = 0
       THEN [curriculumData |-> st.curriculumData,
             hasUnsavedChanges |-> st.hasUnsavedChanges,
             returned |-> FALSE]
       ELSE [curriculumData |->
                 [st.curriculumData EXCEPT ![index] =
                     [@ EXCEPT !.isActive = FALSE, !.updatedAt = t]],
             hasUnsavedChanges |-> TRUE,
             returned |-> TRUE]

\* d => d.isActive !== false
IsActive(d) == d.isActive # FALSE

\* The items exportCurriculumJson writes. (src/admin.js:432-436)
ExportedItems(data) == SelectSeq(data, IsActive)

\* updateStats: the numbers shown for items and topics. (src/admin.js:1093-1106)
UpdateStats(data) ==
    LET active == SelectSeq(data, IsActive)
    IN [total |-> Len(active),
        topics |-> Cardinality(UNION {{active[i].topics[k] : k \in 1..Len(active[i].topics)} :
                                          i \in 1..Len(active)})]

\* renderCurriculum: the items shown under the two filters, '' for no filter.
\* (src/admin.js:1111-1128)
RenderedItems(data, filterTopic, filterGrade) ==
    LET shown(d) ==
            /\ IsActive(d)
            /\ filterTopic # "" => \E k \in 1..Len(d.topics) : d.topics[k] = filterTopic
            /\ filterGrade # 0 => \E k \in 1..Len(d.grades) : d.grades[k] = filterGrade
    IN SelectSeq(data, shown)

\* The state create, update or delete returned becomes the state.
SetAdminData(result) ==
    /\ curriculumData' = result.curriculumData
    /\ hasUnsavedChanges' = result.hasUnsavedChanges

\* The call made is kept for the claims.
KeepCall(op, itemId, result) ==
    adminCall' = Some([op |-> op, itemId |-> itemId, before |-> AdminData,
                       after |-> [curriculumData |-> result.curriculumData,
                                  hasUnsavedChanges |-> result.hasUnsavedChanges],
                       returned |-> result.returned])

\* handleLogin with the right passphrase: the dashboard comes up and
\* loadCurriculum starts. (src/admin.js:258-273)
HandleLogin ==
    /\ ~isAuthenticated
    /\ adminLoads < MaxInFlight
    /\ isAuthenticated' = TRUE
    /\ adminLoads' = adminLoads + 1
    /\ UNCHANGED <<tutorVars, dataVars, modalVars, now, analyses, adminCall>>

\* A loadCurriculum call gets its response: a file with items, a response
\* that is not ok, or a fetch that rejects. (src/admin.js:320-346)
LoadCurriculumReturns(response) ==
    /\ adminLoads > 0
    /\ adminLoads' = adminLoads - 1
    /\ IF response.outcome = "rejects"
       THEN /\ curriculumData' = <<>>
            /\ lastLoadedData' = Some(curriculumData')
            /\ UNCHANGED hasUnsavedChanges
       ELSE /\ curriculumData' = IF response.outcome = "ok" THEN response.items ELSE <<>>
            /\ lastLoadedData' = Some(curriculumData')
            /\ hasUnsavedChanges' = FALSE
    /\ UNCHANGED <<tutorVars, isAuthenticated, modalVars, now, analyses, adminCall>>

\* Sign Out clicked. (src/admin.js:286-298)
HandleSignOut ==
    /\ isAuthenticated
    /\ isAuthenticated' = FALSE
    /\ curriculumData' = <<>>
    /\ hasUnsavedChanges' = FALSE
    /\ UNCHANGED <<tutorVars, lastLoadedData, modalVars, now, adminLoads, analyses,
                   adminCall>>

\* Export JSON clicked. (src/admin.js:431-453)
ExportCurriculumJson ==
    /\ isAuthenticated
    /\ lastLoadedData' = Some(curriculumData)
    /\ hasUnsavedChanges' = FALSE
    /\ UNCHANGED <<tutorVars, isAuthenticated, curriculumData, modalVars, now,
                   adminLoads, analyses, adminCall>>

\* A file chosen for import was read: its items replace the data when it
\* parses and has a list of items. (src/admin.js:459-482)
ImportCurriculumJson(file) ==
    /\ isAuthenticated
    /\ IF file.outcome = "ok"
       THEN /\ curriculumData' = file.items
            /\ lastLoadedData' = Some(curriculumData')
            /\ hasUnsavedChanges' = FALSE
       ELSE UNCHANGED dataVars
    /\ UNCHANGED <<tutorVars, isAuthenticated, modalVars, now, adminLoads, analyses,
                   adminCall>>

\* One call createCurriculumItem(data).
CallCreateItem(data) ==
    /\ isAuthenticated
    /\ now < MaxClock
    /\ Len(curriculumData) < MaxItems
    /\ now' = now + 1
    /\ SetAdminData(CreateCurriculumItem(AdminData, data, now'))
    /\ UNCHANGED <<tutorVars, isAuthenticated, lastLoadedData, modalVars, adminLoads,
                   analyses, adminCall>>

\* One call updateCurriculumItem(itemId, data).
CallUpdateItem(itemId, data) ==
    /\ isAuthenticated
    /\ now < MaxClock
    /\ now' = now + 1
    /\ LET result == UpdateCurriculumItem(AdminData, itemId, data, now')
       IN SetAdminData(result) /\ KeepCall("update", itemId, result)
    /\ UNCHANGED <<tutorVars, isAuthenticated, lastLoadedData, modalVars, adminLoads,
                   analyses>>

\* One call deleteCurriculumItem(itemId).
CallDeleteItem(itemId) ==
    /\ isAuthenticated
    /\ now < MaxClock
    /\ now' = now + 1
    /\ LET result == DeleteCurriculumItem(AdminData, itemId, now')
       IN SetAdminData(result) /\ KeepCall("delete", itemId, result)
    /\ UNCHANGED <<tutorVars, isAuthenticated, lastLoadedData, modalVars, adminLoads,
                   analyses>>

\* resetModalForm: the form as closeModal and openModal leave it.
\* (src/admin.js:894-920)
ResetModalForm ==
    /\ curriculumTitle' = <<>>
    /\ curriculumText' = <<>>
    /\ ocrPreview' = <<>>
    /\ selectedTopics' = <<>>
    /\ selectedGrades' = <<>>
    /\ selectedPdfFile' = Null
    /\ currentEditId' = Null
    /\ activeContentTab' = "text"

\* closeModal (src/admin.js:885-889)
CloseModal ==
    /\ modalHidden' = TRUE
    /\ ResetModalForm

\* Add Curriculum clicked: openModal('add'). (src/admin.js:822-833, 1323-1325)
OpenModalAdd ==
    /\ isAuthenticated
    /\ modalHidden
    /\ modalHidden' = FALSE
    /\ ResetModalForm
    /\ UNCHANGED <<tutorVars, isAuthenticated, dataVars, now, adminLoads, analyses,
                   adminCall>>

\* Edit clicked on the card of item docId, which is rendered:
\* openModal('edit', docId) fills the form from the item.
\* (src/admin.js:834-879, 1205-1209)
OpenModalEdit(docId) ==
    /\ isAuthenticated
    /\ modalHidden
    /\ \E i \in 1..Len(curriculumData) :
          /\ curriculumData[i].id = docId
          /\ IsActive(curriculumData[i])
    /\ LET doc == curriculumData[FindIndex(curriculumData, docId)]
       IN /\ curriculumTitle' = doc.title
          /\ activeContentTab' = doc.contentType
          /\ ocrPreview' = IF doc.contentType = "pdf" THEN doc.content ELSE <<>>
          /\ curriculumText' = IF doc.contentType = "pdf" THEN <<>> ELSE doc.content
          /\ selectedTopics' = doc.topics
          /\ selectedGrades' = doc.grades
    /\ selectedPdfFile' = Null
    /\ currentEditId' = Some(docId)
    /\ modalHidden' = FALSE
    /\ UNCHANGED <<tutorVars, isAuthenticated, dataVars, now, adminLoads, analyses,
                   adminCall>>

\* Cancel, the close button, the overlay or Escape. (src/admin.js:1327-1343)
ModalClosed ==
    /\ ~modalHidden
    /\ CloseModal
    /\ UNCHANGED <<tutorVars, isAuthenticated, dataVars, now, adminLoads, analyses,
                   adminCall>>

\* The admin sets the title field.
TypeTitle(text) ==
    /\ ~modalHidden
    /\ curriculumTitle # text
    /\ curriculumTitle' = text
    /\ UNCHANGED <<tutorVars, isAuthenticated, dataVars, modalHidden, currentEditId,
                   selectedTopics, selectedGrades, selectedPdfFile, activeContentTab,
                   curriculumText, ocrPreview, now, adminLoads, analyses, adminCall>>

\* The admin sets the content field of the text tab.
TypeContent(text) ==
    /\ ~modalHidden
    /\ activeContentTab = "text"
    /\ curriculumText # text
    /\ curriculumText' = text
    /\ UNCHANGED <<tutorVars, isAuthenticated, dataVars, modalHidden, currentEditId,
                   selectedTopics, selectedGrades, selectedPdfFile, activeContentTab,
                   curriculumTitle, ocrPreview, now, adminLoads, analyses, adminCall>>

\* A tab of the modal clicked: switchContentTab(tab). (src/admin.js:926-940)
SwitchContentTab(tab) ==
    /\ ~modalHidden
    /\ activeContentTab' = tab
    /\ UNCHANGED <<tutorVars, isAuthenticated, dataVars, modalHidden, currentEditId,
                   selectedTopics, selectedGrades, selectedPdfFile, curriculumTitle,
                   curriculumText, ocrPreview, now, adminLoads, analyses, adminCall>>

\* A PDF chosen on the PDF tab: handlePdfFileSelected. (src/admin.js:614-639)
HandlePdfFileSelected ==
    /\ ~modalHidden
    /\ activeContentTab = "pdf"
    /\ selectedPdfFile' = Some("a.pdf")
    /\ UNCHANGED <<tutorVars, isAuthenticated, dataVars, modalHidden, currentEditId,
                   selectedTopics, selectedGrades, activeContentTab, curriculumTitle,
                   curriculumText, ocrPreview, now, adminLoads, analyses, adminCall>>

\* runOcrPipeline extracted text from the chosen PDF. (src/admin.js:644-672)
OcrCompletes(text) ==
    /\ ~modalHidden
    /\ selectedPdfFile # Null
    /\ ocrPreview' = text
    /\ UNCHANGED <<tutorVars, isAuthenticated, dataVars, modalHidden, currentEditId,
                   selectedTopics, selectedGrades, selectedPdfFile, activeContentTab,
                   curriculumTitle, curriculumText, now, adminLoads, analyses,
                   adminCall>>

\* The list after the button of tag was clicked. (src/admin.js:1350-1381)
Toggled(selected, tag) ==
    IF \E k \in 1..Len(selected) : selected[k] = tag
    THEN SelectSeq(selected, LAMBDA x : x # tag)
    ELSE Append(selected, tag)

ToggleTopic(topic) ==
    /\ ~modalHidden
    /\ selectedTopics' = Toggled(selectedTopics, topic)
    /\ UNCHANGED <<tutorVars, isAuthenticated, dataVars, modalHidden, currentEditId,
                   selectedGrades, selectedPdfFile, activeContentTab, curriculumTitle,
                   curriculumText, ocrPreview, now, adminLoads, analyses, adminCall>>

ToggleGrade(grade) ==
    /\ ~modalHidden
    /\ selectedGrades' = Toggled(selectedGrades, grade)
    /\ UNCHANGED <<tutorVars, isAuthenticated, dataVars, modalHidden, currentEditId,
                   selectedTopics, selectedPdfFile, activeContentTab, curriculumTitle,
                   curriculumText, ocrPreview, now, adminLoads, analyses, adminCall>>

\* The content handleSave takes from the active tab. (src/admin.js:959-985)
SaveContent == Trim(IF activeContentTab = "pdf" THEN ocrPreview ELSE curriculumText)

\* handleSave returns at its checks of the content. (src/admin.js:963-984)
ContentRefused ==
    IF activeContentTab = "pdf" THEN SaveContent = <<>> /\ selectedPdfFile = Null
    ELSE SaveContent = <<>>

\* pdfFileName (src/admin.js:957, 968-975)
SavePdfFileName ==
    IF activeContentTab # "pdf" THEN Null
    ELSE IF selectedPdfFile # Null THEN selectedPdfFile
    ELSE IF currentEditId # Null /\ FindIndex(curriculumData, Val(currentEditId)) > 0
         THEN curriculumData[FindIndex(curriculumData, Val(currentEditId))].pdfFileName
    ELSE Null

RECURSIVE SortGrades(_)
\* [...selectedGrades].sort((a, b) => a - b)
SortGrades(grades) ==
    IF grades = <<>> THEN <<>>
    ELSE LET least == MinOf({grades[k] : k \in 1..Len(grades)})
         IN <<least>> \o SortGrades(RemoveAt(grades,
                MinOf({k \in 1..Len(grades) : grades[k] = least})))

\* The end of handleSave, from the data object on, with the content, type and
\* file name it took before and the topics and grades now selected: the title
\* is read from the form, the item is updated or created, and the modal is
\* closed when that succeeded. (src/admin.js:1030-1059)
SaveItem(content, contentType, pdfFileName, topics, grades) ==
    LET data == [title |-> Trim(curriculumTitle),
                 content |-> content,
                 contentType |-> contentType,
                 pdfFileName |-> pdfFileName,
                 topics |-> topics,
                 grades |-> SortGrades(grades)]
        result == IF currentEditId # Null
                  THEN UpdateCurriculumItem(AdminData, Val(currentEditId), data, now')
                  ELSE CreateCurriculumItem(AdminData, data, now')
    IN /\ now' = now + 1
       /\ SetAdminData(result)
       /\ IF result.returned THEN CloseModal
          ELSE /\ selectedTopics' = topics
               /\ selectedGrades' = grades
               /\ UNCHANGED <<modalHidden, currentEditId, selectedPdfFile,
                              activeContentTab, curriculumTitle, curriculumText,
                              ocrPreview>>

\* Save clicked, the button being enabled: handleSave up to its await of
\* autoAnalyzeContent, or to its end when topics and grades are selected.
\* (src/admin.js:945-1060)
HandleSave ==
    /\ ~modalHidden
    /\ analyses = <<>>
    /\ now < MaxClock
    /\ Len(curriculumData) < MaxItems
    /\ IF Trim(curriculumTitle) = <<>> \/ ContentRefused
       THEN UNCHANGED <<dataVars, modalVars, now, analyses>>
       ELSE IF selectedTopics = <<>> \/ selectedGrades = <<>>
       THEN /\ analyses' = Append(analyses, [content |-> SaveContent,
                                             contentType |-> activeContentTab,
                                             pdfFileName |-> SavePdfFileName])
            /\ UNCHANGED <<dataVars, modalVars, now>>
       ELSE /\ SaveItem(SaveContent, activeContentTab, SavePdfFileName,
                        selectedTopics, selectedGrades)
            /\ UNCHANGED <<lastLoadedData, analyses>>
    /\ UNCHANGED <<tutorVars, isAuthenticated, adminLoads, adminCall>>

\* autoAnalyzeContent returns to the handleSave call that awaits it: null, or
\* the topics and grades it found, which fill the selections that are empty;
\* the item is saved when both are selected then. (src/admin.js:988-1028)
AnalysisReturns(analysis) ==
    /\ analyses # <<>>
    /\ analyses' = Tail(analyses)
    /\ LET call == Head(analyses)
           topics == IF analysis # Null /\ selectedTopics = <<>>
                     THEN Val(analysis).topics ELSE selectedTopics
           grades == IF analysis # Null /\ selectedGrades = <<>>
                     THEN Val(analysis).grades ELSE selectedGrades
       IN IF topics = <<>> \/ grades = <<>>
          THEN /\ selectedTopics' = topics
               /\ selectedGrades' = grades
               /\ UNCHANGED <<dataVars, now, modalHidden, currentEditId, selectedPdfFile,
                              activeContentTab, curriculumTitle, curriculumText,
                              ocrPreview>>
          ELSE /\ SaveItem(call.content, call.contentType, call.pdfFileName,
                           topics, grades)
               /\ UNCHANGED lastLoadedData
    /\ UNCHANGED <<tutorVars, isAuthenticated, adminLoads, adminCall>>

\* ---------------------------------------------- specification SpecDifficulty

\* The variables a specification does not use.
NoParseInput == aiReply = <<>> /\ lastTurn = Null
NoConceptInput == conceptInput = Null /\ conceptCall = Null
NoDiffCalls == diffCalls = <<>>
NoCurriculumCall ==
    curriculumCall = Null /\ sessionCurriculum = <<>> /\ allMatchedKeys = <<>>

DiffInit ==
    /\ NoCurriculumCall
    /\ NoAdminSession
    /\ SetSessionInit(BeginTurn(OpenedSession, StudentText, FALSE))
    /\ ChatPage(TRUE)
    /\ scoreFeedback = Null
    /\ turns = <<[isHint |-> FALSE]>>
    /\ OnlyTurnsInFlight
    /\ NoParseInput
    /\ NoConceptInput
    /\ diffCalls = <<>>

\* One call updateDifficultyLevel(score).
CallUpdateDifficulty(score) ==
    LET before == DiffState
        after == UpdateDifficultyLevel(before, score)
    IN /\ after.high <= MaxRun
       /\ after.low <= MaxRun
       /\ difficultyLevel' = after.level
       /\ consecutiveHighScores' = after.high
       /\ consecutiveLowScores' = after.low
       /\ UNCHANGED <<currentTopic, questionCount, conversationHistory, scores, hintsUsed,
                      conceptMastery, pageVars, asyncVars, aiReply,
                      conceptInput, conceptCall, lastTurn, curriculumCall,
                      curriculumVars, adminVars>>
       /\ diffCalls' = LastN(Append(diffCalls,
                                   [score |-> score, before |-> before, after |-> after]),
                             DiffWindow)

DiffNext == \E score \in ScoreInputs : CallUpdateDifficulty(score)

SpecDifficulty == DiffInit /\ [][DiffNext]_vars

\* -------------------------------------------------- specification SpecParse

(* A turn is pending in a session that is under way, and its AI reply is any  *)
(* text put together from at most MaxPieces of the pieces below: plain text,  *)
(* whitespace, whole tags, and the parts a score tag is made of.              *)

ReplyPieces ==
    { <<"a">>, <<" ">>, <<"\n">>,
      <<"[", "SCORE", ":">>, <<"8", "5">>, <<"8", "5", "]">>,
      <<"[", "SCORE", ":", "8", "5", "]">>,
      <<"[", "CONCEPTS", ":", "a", "=", "7", "0", "]">>,
      <<"CONCEPTS", ":", "b", "=", "5">>,
      <<"[", "FEEDBACK", ":", "a", "]">> }

ParseInputs ==
    {Flatten(ps) : ps \in UNION {[1..n -> ReplyPieces] : n \in 0..MaxPieces}}

\* The replies of the turns completed before the pending one.
EarlierReplies ==
    { <<>>,
      << <<"[", "SCORE", ":", "8", "5", "]">> >>,
      << <<"a", "[", "SCORE", ":", "7", "2", "]", "[", "CONCEPTS", ":", "a", "=", "7", "0", "]">> >> }

RECURSIVE AfterTurns(_, _)
\* The session after the answer turns that received the replies.
AfterTurns(st, replies) ==
    IF replies = <<>> THEN st
    ELSE AfterTurns(FinishTurn(BeginTurn(st, StudentText, FALSE), Head(replies), FALSE),
                    Tail(replies))

ParseInit ==
    /\ NoCurriculumCall
    /\ NoAdminSession
    /\ \E earlier \in EarlierReplies :
          SetSessionInit(BeginTurn(AfterTurns(OpenedSession, earlier), StudentText, FALSE))
    /\ aiReply \in ParseInputs
    /\ turns = <<[isHint |-> FALSE]>>
    /\ OnlyTurnsInFlight
    /\ ChatPage(TRUE)
    /\ scoreFeedback = Null
    /\ lastTurn = Null
    /\ NoConceptInput
    /\ NoDiffCalls

\* callAI returns reply to the pending generateTutorResponse call i, which runs
\* to its end, and so does the handler that awaited it.
\* (src/app.js:725-739, 1612-1624, 1650-1661)
CompleteTurn(i, reply) ==
    /\ i \in 1..Len(turns)
    /\ LET p == TurnParse(Session, reply)
       IN /\ SetSession(ApplyParse(Session, p, turns[i].isHint))
          /\ scoreFeedback' = ShowFeedback(scoreFeedback, p.feedback)
    /\ turns' = RemoveAt(turns, i)
    /\ inputDisabled' = FALSE
    /\ recordBtnDisabled' = FALSE
    /\ UNCHANGED <<apiKey, screen, topicVars, studentResponse, voiceVars>>
    /\ UNCHANGED <<micRequests, voiceJobs, topicSearches, curriculumLoads, openings,
                   summaries>>
    /\ UNCHANGED <<aiReply, conceptInput, conceptCall, diffCalls, curriculumCall,
                   curriculumVars, adminVars>>

\* The pending turn receives aiReply, and the turn is kept for the claims.
ReplyArrives ==
    /\ CompleteTurn(1, aiReply)
    /\ lastTurn' = TurnRecord(Session, aiReply, TurnParse(Session, aiReply), turns[1].isHint)

ParseNext == ReplyArrives

SpecParse == ParseInit /\ [][ParseNext]_vars

\* ----------------------------------------------- specification SpecConcepts

(* parseConceptString is called with a concept list written out from at most *)
(* MaxPairs pairs of a name and a score, each in one of three layouts.        *)

ConceptNames == {<<"a">>, <<"b">>}
ConceptScores == {0, 1, 49, 50, 69, 70, 100, 101}
ConceptLayouts == {"tight", "colon", "quoted"}

RECURSIVE Digits(_)
\* The decimal digits of n >= 0.
Digits(n) ==
    LET d == CHOOSE c \in DOMAIN DigitValue : DigitValue[c] = n % 10
    IN IF n < 10 THEN <<d>> ELSE Digits(n \div 10) \o <<d>>

\* One pair written out, with the delimiter that ends it:
\*   tight  a=70,     colon  a: 70;     quoted  _'a' - 70 ,
WritePair(pair) ==
    CASE pair.layout = "tight" -> pair.name \o <<"=">> \o Digits(pair.score) \o <<",">>
      [] pair.layout = "colon" -> pair.name \o <<":", " ">> \o Digits(pair.score) \o <<";">>
      [] pair.layout = "quoted" ->
            <<" ", "'">> \o pair.name \o <<"'", " ", "-", " ">> \o Digits(pair.score)
            \o <<" ", ",">>

RECURSIVE WritePairs(_)
WritePairs(pairs) ==
    IF pairs = <<>> THEN <<>> ELSE WritePair(Head(pairs)) \o WritePairs(Tail(pairs))

ConceptPairs == [name : ConceptNames, score : ConceptScores, layout : ConceptLayouts]

\* The replies of the turns completed before the call: none, or one that
\* recorded the concepts a and b.
EarlierConceptReplies ==
    { <<>>,
      << <<"[", "SCORE", ":", "7", "2", "]",
           "[", "CONCEPTS", ":", "a", "=", "1", "0", ",", "b", "=", "5", "5", "]">> >> }

ConceptsInit ==
    /\ NoCurriculumCall
    /\ NoAdminSession
    /\ \E earlier \in EarlierConceptReplies :
          SetSessionInit(BeginTurn(AfterTurns(OpenedSession, earlier), StudentText, FALSE))
    /\ \E n \in 0..MaxPairs : \E pairs \in [1..n -> ConceptPairs] :
          conceptInput = Some([pairs |-> pairs, str |-> WritePairs(pairs)])
    /\ conceptCall = Null
    /\ turns = <<[isHint |-> FALSE]>>
    /\ OnlyTurnsInFlight
    /\ ChatPage(TRUE)
    /\ scoreFeedback = Null
    /\ NoParseInput
    /\ NoDiffCalls

\* parseConceptString(conceptStr) (src/app.js:956-974)
CallParseConceptString ==
    /\ conceptCall = Null
    /\ conceptMastery' = ParseConceptString(conceptMastery, Val(conceptInput).str)
    /\ conceptCall' = Some([before |-> conceptMastery])
    /\ UNCHANGED <<currentTopic, questionCount, conversationHistory, scores, hintsUsed,
                   difficultyLevel, consecutiveHighScores, consecutiveLowScores,
                   pageVars, asyncVars, aiReply, conceptInput, lastTurn, diffCalls,
                   curriculumCall, curriculumVars, adminVars>>

ConceptsNext == CallParseConceptString

SpecConcepts == ConceptsInit /\ [][ConceptsNext]_vars

\* ------------------------------------------- specification SpecConceptRange

(* parseConceptString is called with a concept list whose scores are written  *)
(* as the model would write any integer: a numeral, with a minus sign when it *)
(* is negative.                                                               *)

RangeScores == {0 - 5, 0, 55, 100, 101, 150}
RangeLayouts == {"tight", "colon"}

\* The numeral of an integer.
Numeral(n) == IF n < 0 THEN <<"-">> \o Digits(0 - n) ELSE Digits(n)

\* One pair written out:   tight  a=-5,     colon  a: -5;
WriteSignedPair(pair) ==
    IF pair.layout = "tight"
    THEN pair.name \o <<"=">> \o Numeral(pair.score) \o <<",">>
    ELSE pair.name \o <<":", " ">> \o Numeral(pair.score) \o <<";">>

RECURSIVE WriteSignedPairs(_)
WriteSignedPairs(pairs) ==
    IF pairs = <<>> THEN <<>>
    ELSE WriteSignedPair(Head(pairs)) \o WriteSignedPairs(Tail(pairs))

RangePairs == [name : ConceptNames, score : RangeScores, layout : RangeLayouts]

RangeInit ==
    /\ NoCurriculumCall
    /\ NoAdminSession
    /\ \E earlier \in EarlierConceptReplies :
          SetSessionInit(BeginTurn(AfterTurns(OpenedSession, earlier), StudentText, FALSE))
    /\ \E n \in 0..MaxPairs : \E pairs \in [1..n -> RangePairs] :
          conceptInput = Some([pairs |-> pairs, str |-> WriteSignedPairs(pairs)])
    /\ conceptCall = Null
    /\ turns = <<[isHint |-> FALSE]>>
    /\ OnlyTurnsInFlight
    /\ ChatPage(TRUE)
    /\ scoreFeedback = Null
    /\ NoParseInput
    /\ NoDiffCalls

SpecConceptRange == RangeInit /\ [][ConceptsNext]_vars

\* --------------------------------------------------------- specification Spec

(* The page from its load on: the handlers of the four screens and of the     *)
(* voice controls, and the completions of the asynchronous calls they make.   *)
(* A control is used only while its screen is shown and it is not disabled;   *)
(* the loading overlay does not keep the keyboard from the controls. The      *)
(* student dictates on the chat screen only, into an empty answer box, and    *)
(* clicks Find Topics and Start Learning while no call is in flight.          *)

TypedTexts == {StudentText}
Transcripts == {<<>>, <<"v">>}
SeedPrompt == <<"Start a tutoring session">>
\* The replies a turn receives: plain text, or a score of 85 and text.
TurnReplies == {<<"a">>, <<"[", "SCORE", ":", "8", "5", "]", "a">>}
\* The screens the student dictates on.
VoiceContexts == {"chat"}
\* The sub-topic lists discoverTopics returns: none, or one sub-topic that
\* matches a catalog key.
DiscoveredLists == {<<>>, << <<"forces-motion">> >>}

InFlight ==
    Len(turns) + micRequests + Len(voiceJobs) + topicSearches + curriculumLoads
    + openings + summaries

Init ==
    /\ NoCurriculumCall
    /\ NoAdminSession
    /\ apiKey = Null
    /\ SetSessionInit(FreshSession(NullTopic))
    /\ suggestedSubTopics = <<>>
    /\ screen = "setup"
    /\ topicStep = "describe"
    /\ topicDescription = <<>>
    /\ selectedChips = {}
    /\ studentResponse = <<>>
    /\ inputDisabled = FALSE
    /\ recordBtnDisabled = FALSE
    /\ scoreFeedback = Null
    /\ SetVoiceInit(IdleVoice)
    /\ turns = <<>>
    /\ OnlyTurnsInFlight
    /\ NoParseInput
    /\ NoConceptInput
    /\ NoDiffCalls

\* Start Session with a key that starts with 'sk-' and a name.
\* (src/app.js:1445-1480)
StartSession ==
    /\ screen = "setup"
    /\ apiKey' = ValidKey
    /\ screen' = "topic"
    /\ topicStep' = "describe"
    /\ UNCHANGED <<sessionVars, suggestedSubTopics, topicDescription, selectedChips,
                   chatVars, scoreFeedback, voiceVars, asyncVars, claimVars,
                   curriculumVars, adminVars>>

\* The student types into the empty topic description.
TypeTopic(text) ==
    /\ screen = "topic"
    /\ topicStep = "describe"
    /\ topicDescription = <<>>
    /\ topicDescription' = text
    /\ UNCHANGED <<sessionVars, apiKey, screen, suggestedSubTopics, topicStep,
                   selectedChips, chatVars, scoreFeedback, voiceVars, asyncVars,
                   claimVars, curriculumVars, adminVars>>

\* handleFindTopics up to its await, for the description value: a search is
\* under way unless the description is blank or callAI finds no valid key.
\* (src/app.js:1497-1507, 350-353)
SearchStarts(value) == Trim(value) # <<>> /\ apiKey # Null

\* Find Topics clicked, while no call is in flight. (src/app.js:1520)
FindTopics ==
    /\ screen = "topic"
    /\ topicStep = "describe"
    /\ InFlight = 0
    /\ SearchStarts(topicDescription)
    /\ topicSearches' = topicSearches + 1
    /\ UNCHANGED <<sessionVars, pageVars, turns, micRequests, voiceJobs,
                   curriculumLoads, openings, summaries, claimVars, curriculumVars, adminVars>>

\* discoverTopics returns subtopics: an empty list is reported, any other is
\* rendered with no chip selected. (src/app.js:1507-1513, 490-514)
TopicsFound(subtopics) ==
    /\ topicSearches > 0
    /\ topicSearches' = topicSearches - 1
    /\ IF subtopics = <<>>
       THEN UNCHANGED <<suggestedSubTopics, selectedChips, topicStep>>
       ELSE /\ suggestedSubTopics' = subtopics
            /\ selectedChips' = {}
            /\ topicStep' = "select"
    /\ UNCHANGED <<sessionVars, apiKey, screen, topicDescription, chatVars,
                   scoreFeedback, voiceVars, turns, micRequests, voiceJobs,
                   curriculumLoads, openings, summaries, claimVars, curriculumVars, adminVars>>

\* discoverTopics fails. (src/app.js:1514-1517)
TopicSearchFails ==
    /\ topicSearches > 0
    /\ topicSearches' = topicSearches - 1
    /\ UNCHANGED <<sessionVars, pageVars, turns, micRequests, voiceJobs,
                   curriculumLoads, openings, summaries, claimVars, curriculumVars, adminVars>>

\* A chip is clicked. (src/app.js:505-508)
ToggleChip(i) ==
    /\ screen = "topic"
    /\ topicStep = "select"
    /\ i \in 1..Len(suggestedSubTopics)
    /\ selectedChips' = IF i \in selectedChips THEN selectedChips \ {i}
                        ELSE selectedChips \cup {i}
    /\ UNCHANGED <<sessionVars, apiKey, screen, suggestedSubTopics, topicStep,
                   topicDescription, chatVars, scoreFeedback, voiceVars, asyncVars,
                   claimVars, curriculumVars, adminVars>>

\* Back clicked. (src/app.js:1523-1525)
TopicBack ==
    /\ screen = "topic"
    /\ topicStep = "select"
    /\ topicStep' = "describe"
    /\ UNCHANGED <<sessionVars, apiKey, screen, suggestedSubTopics, topicDescription,
                   selectedChips, chatVars, scoreFeedback, voiceVars, asyncVars,
                   claimVars, curriculumVars, adminVars>>

\* generateOpeningQuestion up to its await, in session st: buildSystemPrompt
\* throws without a topic, callAI throws without a valid key, after the seed
\* prompt was pushed. (src/app.js:748-781, 569-571)
OpeningSeeded(st) ==
    IF ~IsTopicKey(st.currentTopic) THEN st
    ELSE [st EXCEPT !.conversationHistory = Append(@, [role |-> "user", content |-> SeedPrompt])]
OpeningStarts(st) == IsTopicKey(st.currentTopic) /\ apiKey # Null

\* Start Learning clicked, while no call is in flight: the session is reset,
\* and with a catalog key to fetch the curriculum for the handler awaits the
\* fetch; without one it goes on to the chat screen and the opening question.
\* (src/app.js:1528-1586)
StartLearning ==
    /\ screen = "topic"
    /\ topicStep = "select"
    /\ selectedSubTopics # <<>>
    /\ InFlight = 0
    /\ LET fresh == FreshSession(DeterminePrimaryTopic(selectedSubTopics))
       IN IF AllMatchedKeys(selectedSubTopics) # <<>>
          THEN /\ SetSession(fresh)
               /\ curriculumLoads' = curriculumLoads + 1
               /\ allMatchedKeys' = AllMatchedKeys(selectedSubTopics)
               /\ UNCHANGED <<screen, openings, sessionCurriculum>>
          ELSE /\ SetSession(OpeningSeeded(fresh))
               /\ sessionCurriculum' = <<>>
               /\ screen' = "chat"
               /\ openings' = IF OpeningStarts(fresh) THEN openings + 1 ELSE openings
               /\ UNCHANGED <<curriculumLoads, allMatchedKeys>>
    /\ scoreFeedback' = Null
    /\ UNCHANGED <<apiKey, topicVars, chatVars, voiceVars, turns, micRequests,
                   voiceJobs, topicSearches, summaries, claimVars, adminVars>>

\* The curriculum fetches of a Start Learning handler are over, responses[k]
\* being what the fetch for its k-th key received: the text is stored, the
\* chat screen comes up and the opening question is asked for.
\* (src/app.js:1566-1580)
LoadCurriculum(responses) ==
    /\ curriculumLoads > 0
    /\ Len(conversationHistory) < MaxHistory
    /\ Len(responses) = Len(allMatchedKeys)
    /\ curriculumLoads' = curriculumLoads - 1
    /\ sessionCurriculum' = Trim(CombinedCurriculum(allMatchedKeys, responses, 6))
    /\ allMatchedKeys' = <<>>
    /\ screen' = "chat"
    /\ SetSession(OpeningSeeded(Session))
    /\ openings' = IF OpeningStarts(Session) THEN openings + 1 ELSE openings
    /\ UNCHANGED <<apiKey, topicVars, chatVars, scoreFeedback, voiceVars, turns,
                   micRequests, voiceJobs, topicSearches, summaries, adminVars>>

\* The fetches are over on a site that serves no curriculum.json: each of
\* them received a response that is not ok. (src/app.js:57-61)
CurriculumLoaded ==
    /\ LoadCurriculum([k \in 1..Len(allMatchedKeys) |-> NoCurriculumFile])
    /\ UNCHANGED claimVars

\* callAI returns the opening question. (src/app.js:781-789)
OpeningArrives ==
    /\ openings > 0
    /\ openings' = openings - 1
    /\ SetSession(OpeningReceived(Session, OpeningQuestion))
    /\ UNCHANGED <<pageVars, turns, micRequests, voiceJobs, topicSearches,
                   curriculumLoads, summaries, claimVars, curriculumVars, adminVars>>

\* callAI returns the text opening to generateOpeningQuestion, which stores
\* and returns it as it is. (src/app.js:781-789, 1581-1582)
OpeningReturns(opening) ==
    /\ openings > 0
    /\ openings' = openings - 1
    /\ SetSession(OpeningReceived(Session, opening))
    /\ UNCHANGED <<pageVars, turns, micRequests, voiceJobs, topicSearches,
                   curriculumLoads, summaries, claimVars, curriculumVars, adminVars>>

\* callAI fails for the opening question. (src/app.js:790-792, 1583-1585)
OpeningFails ==
    /\ openings > 0
    /\ openings' = openings - 1
    /\ UNCHANGED <<sessionVars, pageVars, turns, micRequests, voiceJobs,
                   topicSearches, curriculumLoads, summaries, claimVars,
                   curriculumVars, adminVars>>

\* The student types into the empty answer box.
TypeAnswer(text) ==
    /\ screen = "chat"
    /\ ~inputDisabled
    /\ studentResponse = <<>>
    /\ studentResponse' = text
    /\ UNCHANGED <<sessionVars, apiKey, screen, topicVars, inputDisabled,
                   recordBtnDisabled, scoreFeedback, voiceVars, asyncVars, claimVars,
                   curriculumVars, adminVars>>

\* generateTutorResponse starts a turn in session st: buildSystemPrompt throws
\* without a topic, before the user turn is pushed, and callAI throws without
\* a valid key, after it. (src/app.js:704-725, 569-571, 350-353)
TurnSeeded(st, studentMessage, isHintRequest) ==
    IF ~IsTopicKey(st.currentTopic) THEN st
    ELSE BeginTurn(st, studentMessage, isHintRequest)
TurnStarts(st) == IsTopicKey(st.currentTopic) /\ apiKey # Null

\* The Send and Hint handlers from the voice check on, with v the VoiceState
\* they find and value what they leave in the answer box: a recording is
\* cancelled, the controls are disabled, the turn starts, and when it fails at
\* once the controls are enabled again. (src/app.js:1596-1624, 1638-1661)
SubmitTurn(studentMessage, isHintRequest, v, value) ==
    /\ SetVoice(IF v.status \in {"recording", "paused"} THEN VoiceCancel(v) ELSE v)
    /\ studentResponse' = value
    /\ SetSession(TurnSeeded(Session, studentMessage, isHintRequest))
    /\ IF TurnStarts(Session)
       THEN /\ turns' = Append(turns, [isHint |-> isHintRequest])
            /\ inputDisabled' = TRUE
            /\ recordBtnDisabled' = TRUE
       ELSE /\ turns' = turns
            /\ inputDisabled' = FALSE
            /\ recordBtnDisabled' = FALSE

\* handleSendResponse with value in the answer box, v the VoiceState and mic
\* the recordBtn.disabled it finds: nothing happens for a blank value.
\* (src/app.js:1592-1625)
HandleSendResponse(value, v, mic) ==
    IF Trim(value) = <<>>
    THEN /\ SetVoice(v)
         /\ studentResponse' = value
         /\ recordBtnDisabled' = mic
         /\ UNCHANGED <<sessionVars, turns, inputDisabled>>
    ELSE SubmitTurn(Trim(value), FALSE, v, <<>>)

\* Send clicked, or Enter pressed in the answer box. (src/app.js:1627-1634)
SendResponse ==
    /\ screen = "chat"
    /\ ~inputDisabled
    /\ Trim(studentResponse) # <<>>
    /\ Len(conversationHistory) < MaxHistory
    /\ InFlight < MaxInFlight
    /\ HandleSendResponse(studentResponse, VoiceState, recordBtnDisabled)
    /\ UNCHANGED <<apiKey, screen, topicVars, scoreFeedback, micRequests, voiceJobs,
                   topicSearches, curriculumLoads, openings, summaries, claimVars,
                   curriculumVars, adminVars>>

\* Hint clicked. (src/app.js:1637-1662)
NeedHint ==
    /\ screen = "chat"
    /\ ~inputDisabled
    /\ Len(conversationHistory) < MaxHistory
    /\ InFlight < MaxInFlight
    /\ SubmitTurn(<<>>, TRUE, VoiceState, studentResponse)
    /\ UNCHANGED <<apiKey, screen, topicVars, scoreFeedback, micRequests, voiceJobs,
                   topicSearches, curriculumLoads, openings, summaries, claimVars,
                   curriculumVars, adminVars>>

\* callAI returns a reply to one of the turns in flight.
TurnReturns(i, reply) ==
    /\ CompleteTurn(i, reply)
    /\ UNCHANGED lastTurn

\* TurnFails without the finally block that enables the controls again.
TurnFails_StaysDisabled(i) ==
    /\ i \in 1..Len(turns)
    /\ turns' = RemoveAt(turns, i)
    /\ UNCHANGED <<sessionVars, pageVars, micRequests, voiceJobs, topicSearches,
                   curriculumLoads, openings, summaries, claimVars, curriculumVars, adminVars>>

\* callAI fails for one of the turns in flight. (src/app.js:739-741, 1615-1624)
TurnFails(i) ==
    /\ i \in 1..Len(turns)
    /\ turns' = RemoveAt(turns, i)
    /\ inputDisabled' = FALSE
    /\ recordBtnDisabled' = FALSE
    /\ UNCHANGED <<sessionVars, apiKey, screen, topicVars, studentResponse,
                   scoreFeedback, voiceVars, micRequests, voiceJobs, topicSearches,
                   curriculumLoads, openings, summaries, claimVars, curriculumVars, adminVars>>

\* The assessment of generateSessionSummary is shown: the key is cleared and
\* the summary screen comes up. (src/app.js:1676-1680)
SummaryShown ==
    /\ apiKey' = Null
    /\ screen' = "summary"

\* generateSessionSummary falls back to its fixed assessment, which throws
\* without a topic to name. (src/app.js:818-826, 1681-1683)
FallbackShown ==
    IF currentTopic = NullTopic THEN UNCHANGED <<apiKey, screen>> ELSE SummaryShown

\* End Session clicked, and confirmed when asked: the voice input is
\* cancelled and the summary requested; without a valid key callAI throws and
\* the fallback is shown at once. (src/app.js:1665-1684, 798-831)
EndSession ==
    /\ screen = "chat"
    /\ InFlight < MaxInFlight
    /\ SetVoice(VoiceCancel(VoiceState))
    /\ recordBtnDisabled' = IF status = "idle" THEN recordBtnDisabled ELSE FALSE
    /\ IF apiKey # Null
       THEN summaries' = summaries + 1 /\ UNCHANGED <<apiKey, screen>>
       ELSE summaries' = summaries /\ FallbackShown
    /\ UNCHANGED <<sessionVars, topicVars, studentResponse, inputDisabled,
                   scoreFeedback, turns, micRequests, voiceJobs, topicSearches,
                   curriculumLoads, openings, claimVars, curriculumVars, adminVars>>

\* generateSessionSummary returns: the assessment of the reply, or the
\* fallback when the call failed or the reply held no JSON; an object that
\* lacks a list makes displaySummary throw. (src/app.js:811-826, 1031-1052)
SummaryReturns(outcome) ==
    /\ summaries > 0
    /\ summaries' = summaries - 1
    /\ CASE outcome = "assessment" -> SummaryShown
         [] outcome = "fallback" -> FallbackShown
         [] outcome = "malformed" -> UNCHANGED <<apiKey, screen>>
    /\ UNCHANGED <<sessionVars, topicVars, chatVars, scoreFeedback, voiceVars,
                   turns, micRequests, voiceJobs, topicSearches, curriculumLoads,
                   openings, claimVars, curriculumVars, adminVars>>

\* New Session clicked. (src/app.js:1704-1740)
NewSession ==
    /\ screen = "summary"
    /\ apiKey' = Null
    /\ SetSession(FreshSession(NullTopic))
    /\ suggestedSubTopics' = <<>>
    /\ selectedChips' = {}
    /\ topicDescription' = <<>>
    /\ scoreFeedback' = Null
    /\ SetVoice(VoiceCancel(VoiceState))
    /\ recordBtnDisabled' = IF status = "idle" THEN recordBtnDisabled ELSE FALSE
    /\ sessionCurriculum' = <<>>
    /\ screen' = "setup"
    /\ UNCHANGED <<topicStep, studentResponse, inputDisabled, asyncVars, allMatchedKeys,
                   claimVars, adminVars>>

\* The mic button of screen ctx clicked, to dictate into an empty text box:
\* voiceStart(ctx) up to its await. (src/app.js:1752-1767, 1150-1160)
MicClick(ctx) ==
    /\ screen = ctx
    /\ ctx = "chat" => ~recordBtnDisabled /\ studentResponse = <<>>
    /\ ctx = "topic" => topicDescription = <<>>
    /\ status = "idle"
    /\ InFlight < MaxInFlight
    /\ context' = ctx
    /\ micRequests' = micRequests + 1
    /\ UNCHANGED <<sessionVars, apiKey, screen, topicVars, chatVars, scoreFeedback,
                   status, micStream, mediaRecorder, turns, voiceJobs, topicSearches,
                   curriculumLoads, openings, summaries, claimVars, curriculumVars, adminVars>>

\* getUserMedia resolves: a recorder is made for the stream and started.
\* (src/app.js:1160-1186)
MicGranted ==
    /\ micRequests > 0
    /\ micRequests' = micRequests - 1
    /\ micStream' = TRUE
    /\ mediaRecorder' = "recording"
    /\ status' = "recording"
    /\ UNCHANGED <<sessionVars, apiKey, screen, topicVars, chatVars, scoreFeedback,
                   context, turns, voiceJobs, topicSearches, curriculumLoads, openings,
                   summaries, claimVars, curriculumVars, adminVars>>

\* getUserMedia rejects. (src/app.js:1187-1196)
MicDenied ==
    /\ micRequests > 0
    /\ micRequests' = micRequests - 1
    /\ status' = "idle"
    /\ recordBtnDisabled' = MicAfterVoiceUI("idle", recordBtnDisabled)
    /\ UNCHANGED <<sessionVars, apiKey, screen, topicVars, studentResponse,
                   inputDisabled, scoreFeedback, context, micStream, mediaRecorder,
                   turns, voiceJobs, topicSearches, curriculumLoads, openings,
                   summaries, claimVars, curriculumVars, adminVars>>

\* Pause or Resume clicked. (src/app.js:1202-1214)
VoicePauseResume(ctx) ==
    /\ VoiceControlsUsable(ctx)
    /\ mediaRecorder # "null"
    /\ status' = IF status = "recording" THEN "paused" ELSE "recording"
    /\ mediaRecorder' = status'
    /\ UNCHANGED <<sessionVars, apiKey, screen, topicVars, chatVars, scoreFeedback,
                   context, micStream, asyncVars, claimVars, curriculumVars, adminVars>>

\* The voice Send clicked: voiceSend up to its await of the recorder's stop.
\* (src/app.js:1219-1253)
VoiceSend(ctx) ==
    /\ VoiceControlsUsable(ctx)
    /\ InFlight < MaxInFlight
    /\ status' = "transcribing"
    /\ mediaRecorder' = "inactive"
    /\ voiceJobs' = Append(voiceJobs, [at |-> "stop", context |-> context])
    /\ UNCHANGED <<sessionVars, apiKey, screen, topicVars, chatVars, scoreFeedback,
                   context, micStream, turns, micRequests, topicSearches,
                   curriculumLoads, openings, summaries, claimVars, curriculumVars, adminVars>>

\* The recorder of voiceSend call j stops: the microphone is released, and the
\* audio, when there is any and a valid key, goes to Whisper; otherwise the
\* call ends here. (src/app.js:1231-1263, 1309-1312, 1298-1303)
RecorderStops(j, hasAudio) ==
    /\ j \in 1..Len(voiceJobs)
    /\ voiceJobs[j].at = "stop"
    /\ micStream' = FALSE
    /\ IF hasAudio /\ apiKey # Null
       THEN /\ voiceJobs' = [voiceJobs EXCEPT ![j].at = "whisper"]
            /\ UNCHANGED <<status, recordBtnDisabled>>
       ELSE /\ voiceJobs' = RemoveAt(voiceJobs, j)
            /\ status' = "idle"
            /\ recordBtnDisabled' = MicAfterVoiceUI("idle", recordBtnDisabled)
    /\ UNCHANGED <<sessionVars, apiKey, screen, topicVars, studentResponse,
                   inputDisabled, scoreFeedback, context, mediaRecorder, turns,
                   micRequests, topicSearches, curriculumLoads, openings, summaries,
                   claimVars, curriculumVars, adminVars>>

\* The text box value after a transcript was put in. (src/app.js:1268-1271)
WithTranscript(currentText, transcript) ==
    IF currentText # <<>> THEN currentText \o <<" ">> \o transcript ELSE transcript

\* Whisper returns a transcript to voiceSend call j: an empty one ends the
\* call; any other is put into the text box of the call's context and sent
\* with handleSendResponse or handleFindTopics. (src/app.js:1263-1297)
TranscriptArrives(j, transcript) ==
    /\ j \in 1..Len(voiceJobs)
    /\ voiceJobs[j].at = "whisper"
    /\ voiceJobs' = RemoveAt(voiceJobs, j)
    /\ CASE transcript = <<>> ->
              /\ status' = "idle"
              /\ recordBtnDisabled' = MicAfterVoiceUI("idle", recordBtnDisabled)
              /\ UNCHANGED <<sessionVars, topicDescription, studentResponse,
                             inputDisabled, context, micStream, mediaRecorder, turns,
                             topicSearches>>
         [] transcript # <<>> /\ voiceJobs[j].context = "chat" ->
              /\ Len(conversationHistory) < MaxHistory
              /\ HandleSendResponse(WithTranscript(studentResponse, transcript),
                                    [VoiceState EXCEPT !.status = "idle"],
                                    MicAfterVoiceUI("idle", recordBtnDisabled))
              /\ UNCHANGED <<topicDescription, topicSearches>>
         [] transcript # <<>> /\ voiceJobs[j].context = "topic" ->
              /\ topicDescription' = WithTranscript(topicDescription, transcript)
              /\ status' = "idle"
              /\ recordBtnDisabled' = MicAfterVoiceUI("idle", recordBtnDisabled)
              /\ topicSearches' = IF SearchStarts(topicDescription')
                                  THEN topicSearches + 1 ELSE topicSearches
              /\ UNCHANGED <<sessionVars, studentResponse, inputDisabled, context,
                             micStream, mediaRecorder, turns>>
    /\ UNCHANGED <<apiKey, screen, suggestedSubTopics, topicStep, selectedChips,
                   scoreFeedback, micRequests, curriculumLoads, openings, summaries,
                   claimVars, curriculumVars, adminVars>>

\* The Whisper call of voiceSend call j fails. (src/app.js:1298-1303)
TranscriptionFails(j) ==
    /\ j \in 1..Len(voiceJobs)
    /\ voiceJobs[j].at = "whisper"
    /\ voiceJobs' = RemoveAt(voiceJobs, j)
    /\ status' = "idle"
    /\ recordBtnDisabled' = MicAfterVoiceUI("idle", recordBtnDisabled)
    /\ UNCHANGED <<sessionVars, apiKey, screen, topicVars, studentResponse,
                   inputDisabled, scoreFeedback, context, micStream, mediaRecorder,
                   turns, micRequests, topicSearches, curriculumLoads, openings,
                   summaries, claimVars, curriculumVars, adminVars>>

Next ==
    \/ StartSession
    \/ \E text \in TypedTexts : TypeTopic(text)
    \/ FindTopics
    \/ \E subtopics \in DiscoveredLists : TopicsFound(subtopics)
    \/ TopicSearchFails
    \/ \E i \in {1, 2} : ToggleChip(i)
    \/ TopicBack
    \/ StartLearning
    \/ CurriculumLoaded
    \/ OpeningArrives
    \/ OpeningFails
    \/ \E text \in TypedTexts : TypeAnswer(text)
    \/ SendResponse
    \/ NeedHint
    \/ \E i \in 1..MaxInFlight, reply \in TurnReplies : TurnReturns(i, reply)
    \/ \E i \in 1..MaxInFlight : TurnFails(i)
    \/ EndSession
    \/ \E outcome \in {"assessment", "fallback", "malformed"} : SummaryReturns(outcome)
    \/ NewSession
    \/ \E ctx \in VoiceContexts : MicClick(ctx)
    \/ MicGranted
    \/ MicDenied
    \/ \E ctx \in VoiceContexts : VoicePauseResume(ctx)
    \/ \E ctx \in VoiceContexts : VoiceSend(ctx)
    \/ \E j \in 1..MaxInFlight, hasAudio \in BOOLEAN : RecorderStops(j, hasAudio)
    \/ \E j \in 1..MaxInFlight, transcript \in Transcripts : TranscriptArrives(j, transcript)
    \/ \E j \in 1..MaxInFlight : TranscriptionFails(j)

Spec == Init /\ [][Next]_vars

\* ----------------------------------------------------- specification SpecTurn

(* The chat screen of a session that has received its opening question: the  *)
(* student types, sends answers and asks for hints, one turn at a time, and  *)
(* each turn's AI call returns a reply or fails.                             *)

\* What the student types: a word, and a word with blanks around it.
TurnTexts == {StudentText, <<" ", "b", " ">>}

\* [SCORE:72][CONCEPTS:orbits=70][FEEDBACK:Nice!]
ScenarioReply ==
    <<"[", "SCORE", ":", "7", "2", "]",
      "[", "CONCEPTS", ":", "o", "r", "b", "i", "t", "s", "=", "7", "0", "]",
      "[", "FEEDBACK", ":", "N", "i", "c", "e", "!", "]">>

\* The replies of callAI: plain text, the scenario reply alone and after
\* text, a high and a low score.
ScenarioReplies ==
    { <<"a">>,
      ScenarioReply,
      <<"a", " ">> \o ScenarioReply,
      <<"[", "SCORE", ":", "8", "5", "]", "a">>,
      <<"a", "\n", "[", "SCORE", ":", "4", "0", "]">> }

TurnInit ==
    /\ NoCurriculumCall
    /\ NoAdminSession
    /\ SetSessionInit(OpenedSession)
    /\ ChatPage(FALSE)
    /\ scoreFeedback = Null
    /\ turns = <<>>
    /\ OnlyTurnsInFlight
    /\ NoParseInput
    /\ NoConceptInput
    /\ NoDiffCalls

\* callAI returns reply to the pending turn, and the turn is kept for the
\* claims. (src/app.js:725-739, 1612-1624, 1650-1661)
TurnCompletes(reply) ==
    /\ CompleteTurn(1, reply)
    /\ lastTurn' = TurnRecord(Session, reply, TurnParse(Session, reply), turns[1].isHint)

TurnNext ==
    \/ \E text \in TurnTexts : TypeAnswer(text)
    \/ SendResponse
    \/ NeedHint
    \/ \E reply \in ScenarioReplies : TurnCompletes(reply)
    \/ TurnFails(1)

SpecTurn == TurnInit /\ [][TurnNext]_vars

\* -------------------------------------------------- specification SpecSummary

(* End Session was clicked on the chat screen and generateSessionSummary      *)
(* awaits callAI. What comes back is told by four things: whether the call    *)
(* succeeded, whether the reply holds a {...} block, whether JSON.parse takes *)
(* that block, and which fields the parsed object has.                        *)

SummaryFields ==
    {"strengths", "areasToImprove", "nextSteps", "conceptMastery", "overallSummary"}

SummaryReplies ==
    [ok : BOOLEAN, braces : BOOLEAN, parses : BOOLEAN, fields : SUBSET SummaryFields]

\* What a call that throws leaves in place of its result.
Throws == [source |-> "throws", fields |-> {}]

\* The catch block of generateSessionSummary: the fixed assessment, whose
\* overallSummary names the topic. (src/app.js:818-827)
FallbackAssessment(topic) ==
    IF topic = NullTopic THEN Throws
    ELSE [source |-> "fallback", fields |-> SummaryFields]

\* What generateSessionSummary returns for the reply. (src/app.js:798-831)
GenerateSessionSummary(reply, topic) ==
    IF reply.ok /\ reply.braces /\ reply.parses
    THEN [source |-> "model", fields |-> reply.fields]
    ELSE FallbackAssessment(topic)

\* displaySummary throws for an assessment that lacks one of the fields it
\* walks through. (src/app.js:1031-1072)
DisplayedFields == {"strengths", "areasToImprove", "nextSteps", "conceptMastery"}

\* How the End Session handler goes on with what generateSessionSummary
\* returned. (src/app.js:1676-1683)
OutcomeOf(reply, topic) ==
    LET assessment == GenerateSessionSummary(reply, topic)
    IN IF assessment = Throws THEN "fallback"
       ELSE IF ~(DisplayedFields \subseteq assessment.fields) THEN "malformed"
       ELSE IF assessment.source = "model" THEN "assessment"
       ELSE "fallback"

SummaryInit ==
    /\ NoCurriculumCall
    /\ NoAdminSession
    /\ \E earlier \in EarlierReplies : SetSessionInit(AfterTurns(OpenedSession, earlier))
    /\ ChatPage(FALSE)
    /\ scoreFeedback = Null
    /\ aiReply \in SummaryReplies
    /\ turns = <<>>
    /\ micRequests = 0
    /\ voiceJobs = <<>>
    /\ topicSearches = 0
    /\ curriculumLoads = 0
    /\ openings = 0
    /\ summaries = 1
    /\ lastTurn = Null
    /\ NoConceptInput
    /\ NoDiffCalls

\* callAI is over for the pending summary.
SummaryArrives == SummaryReturns(OutcomeOf(aiReply, currentTopic))

SummaryNext == SummaryArrives

SpecSummary == SummaryInit /\ [][SummaryNext]_vars

\* The pending call of generateSessionSummary returns in the end: fetch
\* resolves or rejects, and the handler goes on. (src/app.js:811-817, 1676)
SpecSummaryReturns == SpecSummary /\ WF_vars(SummaryNext)

\* ------------------------------------------------ specification SpecLifecycle

(* A session under way on the chat screen is ended, the summary is shown, a   *)
(* new session is asked for and started: the handlers of the setup, topic and *)
(* summary screens and End Session, with no turn and no voice input.          *)

\* The sub-topic lists discoverTopics returns: none, one sub-topic that
\* matches a catalog key, and one that matches none.
LifecycleLists == {<<>>, << <<"forces-motion">> >>, << <<>> >>}

LifecycleInit ==
    /\ NoCurriculumCall
    /\ NoAdminSession
    /\ \E earlier \in EarlierReplies : SetSessionInit(AfterTurns(OpenedSession, earlier))
    /\ ChatPage(FALSE)
    /\ scoreFeedback = Null
    /\ turns = <<>>
    /\ OnlyTurnsInFlight
    /\ NoParseInput
    /\ NoConceptInput
    /\ NoDiffCalls

LifecycleNext ==
    \/ EndSession
    \/ \E outcome \in {"assessment", "fallback", "malformed"} : SummaryReturns(outcome)
    \/ NewSession
    \/ StartSession
    \/ \E text \in TypedTexts : TypeTopic(text)
    \/ FindTopics
    \/ \E subtopics \in LifecycleLists : TopicsFound(subtopics)
    \/ TopicSearchFails
    \/ \E i \in {1, 2} : ToggleChip(i)
    \/ TopicBack
    \/ StartLearning
    \/ CurriculumLoaded
    \/ OpeningArrives
    \/ OpeningFails

SpecLifecycle == LifecycleInit /\ [][LifecycleNext]_vars

\* ----------------------------------------------- specification SpecCurriculum

(* fetchRelevantCurriculum is called for the topic and grade of the session   *)
(* and receives a response: not ok, or curriculum.json with at most MaxItems  *)
(* items, whose contents are short or bring the combined text next to the     *)
(* limit.                                                                     *)

\* The lengths of the contents: with the title T an item block is 12
\* characters longer than its content.
ContentLengths == {0, 3, CurriculumLimit - 13, CurriculumLimit - 12, CurriculumLimit - 11}

\* The items of curriculum.json: one that matches topic and grade, an inactive
\* one, one of another topic and one of another grade, with each content.
CurriculumItems ==
    { [isActive |-> f[1], topics |-> f[2], grades |-> f[3],
       title |-> <<"T">>, content |-> Text(n)] :
      f \in { <<TRUE, {"solar-system", "ecosystems"}, {5, 6}>>,
              <<FALSE, {"solar-system"}, {6}>>,
              <<TRUE, {"ecosystems"}, {6}>>,
              <<TRUE, {"solar-system"}, {7}>> },
      n \in ContentLengths }

CurriculumResponses ==
    [ok : BOOLEAN,
     items : UNION {[1..n -> CurriculumItems] : n \in 0..MaxItems}]

CurriculumInit ==
    /\ NoAdminSession
    /\ SetSessionInit(FreshSession("solar-system"))
    /\ apiKey = ValidKey
    /\ screen = "topic"
    /\ suggestedSubTopics = << <<"solar-system">> >>
    /\ selectedChips = {1}
    /\ topicStep = "select"
    /\ topicDescription = StudentText
    /\ studentResponse = <<>>
    /\ inputDisabled = FALSE
    /\ recordBtnDisabled = FALSE
    /\ SetVoiceInit(IdleVoice)
    /\ scoreFeedback = Null
    /\ turns = <<>>
    /\ micRequests = 0
    /\ voiceJobs = <<>>
    /\ topicSearches = 0
    /\ curriculumLoads = 1
    /\ openings = 0
    /\ summaries = 0
    /\ curriculumCall = Null
    /\ sessionCurriculum = <<>>
    /\ allMatchedKeys = <<"solar-system">>
    /\ NoParseInput
    /\ NoConceptInput
    /\ NoDiffCalls

\* The fetch of curriculum.json resolves with the response.
CurriculumFetched(response) ==
    /\ curriculumCall = Null
    /\ curriculumCall' =
          Some([response |-> response,
                result |-> FetchRelevantCurriculum(response, currentTopic, 6)])
    /\ UNCHANGED <<sessionVars, pageVars, asyncVars, curriculumVars, aiReply,
                   conceptInput, conceptCall, lastTurn, diffCalls, adminVars>>

CurriculumNext == \E response \in CurriculumResponses : CurriculumFetched(response)

SpecCurriculum == CurriculumInit /\ [][CurriculumNext]_vars

\* ---------------------------------------------------- specification SpecStart

(* The topic screen with the sub-topics discoverTopics found, none of them    *)
(* selected yet: the student selects chips and clicks Start Learning, the     *)
(* fetches of curriculum.json receive their responses, and the opening        *)
(* question arrives or fails.                                                 *)

\* The sub-topic lists: two sub-topics of one key each, two that share a key,
\* and one without a catalog key beside one with a key.
StartLists ==
    { << <<"solar-system">>, <<"ecosystems">> >>,
      << <<"solar-system", "ecosystems">>, <<"solar-system">> >>,
      << <<>>, <<"solar-system">> >> }

\* An item for grade 6 with n characters of content.
StartItem(keys, n) ==
    [isActive |-> TRUE, topics |-> keys, grades |-> {5, 6}, title |-> <<"T">>,
     content |-> Text(n)]

\* The responses to a fetch of curriculum.json: not ok, no items, an item of
\* both topics that is short, one that passes the limit, and a short item of
\* one topic.
StartResponses ==
    { NoCurriculumFile,
      [ok |-> TRUE, items |-> <<>>],
      [ok |-> TRUE, items |-> <<StartItem({"solar-system", "ecosystems"}, 3)>>],
      [ok |-> TRUE,
       items |-> <<StartItem({"solar-system", "ecosystems"}, CurriculumLimit - 11)>>],
      [ok |-> TRUE, items |-> <<StartItem({"ecosystems"}, 3)>>] }

StartInit ==
    /\ NoCurriculumCall
    /\ NoAdminSession
    /\ SetSessionInit(FreshSession(NullTopic))
    /\ apiKey = ValidKey
    /\ screen = "topic"
    /\ suggestedSubTopics \in StartLists
    /\ selectedChips = {}
    /\ topicStep = "select"
    /\ topicDescription = StudentText
    /\ studentResponse = <<>>
    /\ inputDisabled = FALSE
    /\ recordBtnDisabled = FALSE
    /\ SetVoiceInit(IdleVoice)
    /\ scoreFeedback = Null
    /\ turns = <<>>
    /\ OnlyTurnsInFlight
    /\ NoParseInput
    /\ NoConceptInput
    /\ NoDiffCalls

\* The fetches of the awaiting Start Learning handler received the responses,
\* which are kept for the claims.
CurriculumArrives(responses) ==
    /\ LoadCurriculum(responses)
    /\ curriculumCall' = Some([keys |-> allMatchedKeys, responses |-> responses])
    /\ UNCHANGED <<aiReply, conceptInput, conceptCall, lastTurn, diffCalls>>

StartNext ==
    \/ \E i \in {1, 2} : ToggleChip(i)
    \/ StartLearning
    \/ \E n \in 1..2 : \E responses \in [1..n -> StartResponses] :
          CurriculumArrives(responses)
    \/ OpeningArrives
    \/ OpeningFails

SpecStart == StartInit /\ [][StartNext]_vars

\* -------------------------------------------------- specification SpecScoring

(* A turn, answer or hint, is pending in a session whose opening question     *)
(* arrived or failed and in which earlier turns may have completed; its AI    *)
(* call returns one of the replies below or fails, and the student goes on.   *)

\* The session on the chat screen after the opening question failed: the seed
\* prompt is all the history holds. (src/app.js:776-781, 1583-1585)
UnopenedSession == OpeningSeeded(FreshSession("solar-system"))

\* The replies of callAI: plain text; scores of 0, 85 and 150 alone; a score
\* with a new concept; a concept without a score; a concept tag without a
\* pair; a score with a concept score that is out of range.
ScoringReplies ==
    { <<"a">>,
      <<"[", "SCORE", ":", "0", "]", "a">>,
      <<"[", "SCORE", ":", "8", "5", "]", "a">>,
      <<"[", "SCORE", ":", "1", "5", "0", "]", "a">>,
      <<"[", "SCORE", ":", "5", "5", "]", "[", "CONCEPTS", ":", "b", "=", "5", "]">>,
      <<"a", "[", "CONCEPTS", ":", "a", "=", "4", "0", "]">>,
      <<"[", "CONCEPTS", ":", "x", "]", "a">>,
      <<"[", "SCORE", ":", "6", "0", "]", "[", "CONCEPTS", ":", "c", "=", "1", "5", "0", "]">> }

ScoringInit ==
    /\ NoCurriculumCall
    /\ NoAdminSession
    /\ \E start \in {OpenedSession, UnopenedSession}, earlier \in EarlierReplies,
          isHintRequest \in BOOLEAN :
          /\ SetSessionInit(BeginTurn(AfterTurns(start, earlier),
                                      IF isHintRequest THEN <<>> ELSE StudentText,
                                      isHintRequest))
          /\ turns = <<[isHint |-> isHintRequest]>>
    /\ ChatPage(TRUE)
    /\ scoreFeedback = Null
    /\ OnlyTurnsInFlight
    /\ NoParseInput
    /\ NoConceptInput
    /\ NoDiffCalls

ScoringNext ==
    \/ \E reply \in ScoringReplies : TurnCompletes(reply)
    \/ TurnFails(1)
    \/ \E text \in TurnTexts : TypeAnswer(text)
    \/ SendResponse
    \/ NeedHint

SpecScoring == ScoringInit /\ [][ScoringNext]_vars

\* -------------------------------------------------- specification SpecOpening

(* The chat screen has come up and the opening question is asked for: the     *)
(* call returns a text, with or without the assessment block the system       *)
(* prompt asks for at the end of every response, or fails, and the student    *)
(* takes turns.                                                               *)

\* The texts callAI returns for the opening prompt: a question, and a question
\* followed by a score tag, or by a concepts line.
OpeningReplies ==
    { OpeningQuestion,
      OpeningQuestion \o <<"\n", "[", "SCORE", ":", "5", "0", "]">>,
      OpeningQuestion \o <<"\n", "CONCEPTS", ":", "a", "=", "5">> }

OpeningInit ==
    /\ NoCurriculumCall
    /\ NoAdminSession
    /\ SetSessionInit(UnopenedSession)
    /\ ChatPage(FALSE)
    /\ scoreFeedback = Null
    /\ turns = <<>>
    /\ micRequests = 0
    /\ voiceJobs = <<>>
    /\ topicSearches = 0
    /\ curriculumLoads = 0
    /\ openings = 1
    /\ summaries = 0
    /\ NoParseInput
    /\ NoConceptInput
    /\ NoDiffCalls

OpeningNext ==
    \/ \E opening \in OpeningReplies : OpeningReturns(opening)
    \/ OpeningFails
    \/ \E text \in TurnTexts : TypeAnswer(text)
    \/ SendResponse
    \/ NeedHint
    \/ \E reply \in ScenarioReplies : TurnCompletes(reply)
    \/ TurnFails(1)

SpecOpening == OpeningInit /\ [][OpeningNext]_vars

\* ---------------------------------------------------- specification SpecVoice

(* The chat screen of a session that has its opening question: the student   *)
(* dictates answers, asks for hints and ends the session, while getUserMedia, *)
(* the recorder and Whisper answer in any order.                              *)

VoiceInit ==
    /\ NoCurriculumCall
    /\ NoAdminSession
    /\ SetSessionInit(OpenedSession)
    /\ ChatPage(FALSE)
    /\ scoreFeedback = Null
    /\ turns = <<>>
    /\ OnlyTurnsInFlight
    /\ NoParseInput
    /\ NoConceptInput
    /\ NoDiffCalls

VoiceNext ==
    \/ MicClick("chat")
    \/ MicGranted
    \/ MicDenied
    \/ VoicePauseResume("chat")
    \/ VoiceSend("chat")
    \/ \E j \in 1..MaxInFlight, hasAudio \in BOOLEAN : RecorderStops(j, hasAudio)
    \/ \E j \in 1..MaxInFlight, transcript \in Transcripts : TranscriptArrives(j, transcript)
    \/ \E j \in 1..MaxInFlight : TranscriptionFails(j)
    \/ NeedHint
    \/ \E i \in 1..MaxInFlight : TurnFails(i)
    \/ EndSession

SpecVoice == VoiceInit /\ [][VoiceNext]_vars

\* ------------------------------------------------ specification SpecDictation

(* The same screen with a student who starts a dictation only when no earlier *)
(* one is under way: no microphone request is pending and no recording is     *)
(* being transcribed.                                                         *)

StartDictation ==
    /\ micRequests = 0
    /\ voiceJobs = <<>>
    /\ MicClick("chat")

DictationNext ==
    \/ StartDictation
    \/ MicGranted
    \/ MicDenied
    \/ VoicePauseResume("chat")
    \/ VoiceSend("chat")
    \/ \E hasAudio \in BOOLEAN : RecorderStops(1, hasAudio)
    \/ \E transcript \in Transcripts : TranscriptArrives(1, transcript)
    \/ TranscriptionFails(1)
    \/ NeedHint
    \/ \E i \in 1..MaxInFlight : TurnFails(i)
    \/ EndSession

SpecDictation == VoiceInit /\ [][DictationNext]_vars

\* ---------------------------------------------------- specification SpecTopic

(* The topic screen of a student who has entered a key: a description is      *)
(* typed, discoverTopics returns one of the lists below, chips are toggled    *)
(* and Start Learning is clicked, on a site that serves no curriculum.json.   *)

\* The sub-topic lists discoverTopics returns: none; two sub-topics that name
\* catalog keys, solar-system twice and ecosystems once; a sub-topic that
\* names no key and one whose key is no catalog key; a sub-topic whose key is
\* a property that every object inherits.
TopicLists ==
    { <<>>,
      << <<"ecosystems", "solar-system">>, <<"solar-system">> >>,
      << <<>>, <<"volcanoes">> >>,
      << <<"constructor">> >> }

TopicInit ==
    /\ NoCurriculumCall
    /\ NoAdminSession
    /\ SetSessionInit(FreshSession(NullTopic))
    /\ apiKey = ValidKey
    /\ screen = "topic"
    /\ suggestedSubTopics = <<>>
    /\ selectedChips = {}
    /\ topicStep = "describe"
    /\ topicDescription = <<>>
    /\ studentResponse = <<>>
    /\ inputDisabled = FALSE
    /\ recordBtnDisabled = FALSE
    /\ SetVoiceInit(IdleVoice)
    /\ scoreFeedback = Null
    /\ turns = <<>>
    /\ OnlyTurnsInFlight
    /\ NoParseInput
    /\ NoConceptInput
    /\ NoDiffCalls

TopicNext ==
    \/ \E text \in TypedTexts : TypeTopic(text)
    \/ FindTopics
    \/ \E subtopics \in TopicLists : TopicsFound(subtopics)
    \/ TopicSearchFails
    \/ \E i \in {1, 2} : ToggleChip(i)
    \/ TopicBack
    \/ StartLearning
    \/ CurriculumLoaded
    \/ OpeningArrives
    \/ OpeningFails
    \/ EndSession
    \/ \E outcome \in {"assessment", "fallback"} : SummaryReturns(outcome)

SpecTopic == TopicInit /\ [][TopicNext]_vars

\* ------------------------------------------------ specification SpecAdminData

(* The admin tool from its load on: the admin signs in and out, the          *)
(* curriculum file is loaded, imported and exported, and items are created,  *)
(* updated and deleted, with ids that are and that are not in the data.      *)

\* The item of the curriculum file.
FileItem ==
    [id |-> 0, title |-> <<"T">>, content |-> <<"c">>, contentType |-> "text",
     pdfFileName |-> Null, topics |-> <<"solar-system">>, grades |-> <<5>>,
     isActive |-> TRUE, createdAt |-> 0, updatedAt |-> 0]

\* What a fetch of the curriculum file brings: the file with an item, a
\* response that is not ok, a rejection.
AdminResponses ==
    { [outcome |-> "ok", items |-> <<FileItem>>],
      [outcome |-> "not ok", items |-> <<>>],
      [outcome |-> "rejects", items |-> <<>>] }

\* The files imported: one with an item, one that is no curriculum file.
ImportFiles ==
    { [outcome |-> "ok", items |-> <<FileItem>>],
      [outcome |-> "invalid", items |-> <<>>] }

\* The fields create and update are called with.
ItemEdit ==
    [title |-> <<"U">>, content |-> <<"d">>, contentType |-> "text",
     pdfFileName |-> Null, topics |-> <<"ecosystems">>, grades |-> <<6>>]

\* The ids update and delete are called with: the one of the file, those of
\* the items created, and ids that no item has.
ItemIds == 0..MaxClock

AdminDataNext ==
    \/ HandleLogin
    \/ \E response \in AdminResponses : LoadCurriculumReturns(response)
    \/ HandleSignOut
    \/ ExportCurriculumJson
    \/ \E file \in ImportFiles : ImportCurriculumJson(file)
    \/ CallCreateItem(ItemEdit)
    \/ \E itemId \in ItemIds : CallUpdateItem(itemId, ItemEdit)
    \/ \E itemId \in ItemIds : CallDeleteItem(itemId)

SpecAdminData == Init /\ [][AdminDataNext]_vars

\* ------------------------------------------------ specification SpecAdminSave

(* The dashboard of an admin who signed in, after the curriculum file with   *)
(* one item was loaded: the modal is opened to add or to edit an item, the   *)
(* form is filled in, and Save is clicked.                                    *)

AdminSaveInit ==
    /\ NoCurriculumCall
    /\ SetSessionInit(FreshSession(NullTopic))
    /\ apiKey = Null
    /\ suggestedSubTopics = <<>>
    /\ screen = "setup"
    /\ topicStep = "describe"
    /\ topicDescription = <<>>
    /\ selectedChips = {}
    /\ studentResponse = <<>>
    /\ inputDisabled = FALSE
    /\ recordBtnDisabled = FALSE
    /\ scoreFeedback = Null
    /\ SetVoiceInit(IdleVoice)
    /\ turns = <<>>
    /\ OnlyTurnsInFlight
    /\ NoParseInput
    /\ NoConceptInput
    /\ NoDiffCalls
    /\ isAuthenticated = TRUE
    /\ curriculumData = <<FileItem>>
    /\ hasUnsavedChanges = FALSE
    /\ lastLoadedData = Some(<<FileItem>>)
    /\ modalHidden = TRUE
    /\ currentEditId = Null
    /\ selectedTopics = <<>>
    /\ selectedGrades = <<>>
    /\ selectedPdfFile = Null
    /\ activeContentTab = "text"
    /\ curriculumTitle = <<>>
    /\ curriculumText = <<>>
    /\ ocrPreview = <<>>
    /\ now = 0
    /\ adminLoads = 0
    /\ analyses = <<>>
    /\ adminCall = Null

\* What the admin puts in a field: nothing, or a word after a blank.
FieldTexts == {<<>>, <<" ", "U">>}

\* What autoAnalyzeContent returns: null, no topic and no grade, one of each.
Analyses ==
    { Null,
      Some([topics |-> <<>>, grades |-> <<>>]),
      Some([topics |-> <<"ecosystems">>, grades |-> <<6>>]) }

AdminSaveNext ==
    \/ OpenModalAdd
    \/ \E docId \in ItemIds : OpenModalEdit(docId)
    \/ ModalClosed
    \/ \E text \in FieldTexts : TypeTitle(text)
    \/ \E text \in FieldTexts : TypeContent(text)
    \/ \E tab \in {"text", "pdf"} : SwitchContentTab(tab)
    \/ HandlePdfFileSelected
    \/ OcrCompletes(<<"p">>)
    \/ ToggleTopic("ecosystems")
    \/ ToggleGrade(6)
    \/ HandleSave
    \/ \E analysis \in Analyses : AnalysisReturns(analysis)

SpecAdminSave == AdminSaveInit /\ [][AdminSaveNext]_vars

\* ================================================================== claims

\* ------------------------------------------------------ turns in flight (C1)

\* C1: at most one tutoring turn is in flight, whichever entry point starts
\* turns (Send, Enter, Hint, the voice auto-send), and while a turn is in
\* flight the answer box, Send and Hint stay disabled.
C1_OneTurnInFlight ==
    /\ Len(turns) <= 1
    /\ turns # <<>> => inputDisabled

\* ---------------------------------------------------- difficulty (C2 - C6)

IsHigh(score) == ~IsNull(score) /\ Val(score) >= 80
IsLow(score) == ~IsNull(score) /\ Val(score) < 50
IsMid(score) == ~IsNull(score) /\ Val(score) >= 50 /\ Val(score) <= 79

LevelAbove(level) == At(levels, IndexOf(levels, level) + 1)
LevelBelow(level) == At(levels, IndexOf(levels, level) - 1)

\* C2: starting with consecutiveHighScores = 0 at a level other than challenge,
\* three consecutive updateDifficultyLevel calls with scores >= 80 leave the
\* level alone on the first and second call, advance it by exactly one level on
\* the third, and leave consecutiveHighScores = 0.
C2_ThreeHighScoresAdvance ==
    \A i \in 1..(Len(diffCalls) - 2) :
        LET c1 == diffCalls[i]
            c2 == diffCalls[i + 1]
            c3 == diffCalls[i + 2]
        IN (/\ c1.before.high = 0
            /\ c1.before.level # "challenge"
            /\ IsHigh(c1.score) /\ IsHigh(c2.score) /\ IsHigh(c3.score))
           => /\ c1.after.level = c1.before.level
              /\ c2.after.level = c1.before.level
              /\ c3.after.level = LevelAbove(c1.before.level)
              /\ c3.after.high = 0

\* C2 witness: medium became hard on the third of three high scores.
C2_Witness ==
    /\ Len(diffCalls) >= 3
    /\ LET n == Len(diffCalls)
       IN /\ diffCalls[n - 2].before = [level |-> "medium", high |-> 0, low |-> 0]
          /\ IsHigh(diffCalls[n - 2].score)
          /\ IsHigh(diffCalls[n - 1].score)
          /\ IsHigh(diffCalls[n].score)
    /\ difficultyLevel = "hard"
    /\ consecutiveHighScores = 0

\* C3: starting with consecutiveLowScores = 0 at a level other than easy, two
\* consecutive updateDifficultyLevel calls with scores < 50 retreat the level by
\* exactly one on the second call and leave consecutiveLowScores = 0.
C3_TwoLowScoresRetreat ==
    \A i \in 1..(Len(diffCalls) - 1) :
        LET c1 == diffCalls[i]
            c2 == diffCalls[i + 1]
        IN (/\ c1.before.low = 0
            /\ c1.before.level # "easy"
            /\ IsLow(c1.score) /\ IsLow(c2.score))
           => /\ c1.after.level = c1.before.level
              /\ c2.after.level = LevelBelow(c1.before.level)
              /\ c2.after.low = 0

\* C3 witness: hard became medium on the second of two low scores.
C3_Witness ==
    /\ Len(diffCalls) >= 2
    /\ LET n == Len(diffCalls)
       IN /\ diffCalls[n - 1].before.level = "hard"
          /\ diffCalls[n - 1].before.low = 0
          /\ IsLow(diffCalls[n - 1].score)
          /\ IsLow(diffCalls[n].score)
    /\ difficultyLevel = "medium"
    /\ consecutiveLowScores = 0

\* C4: difficultyLevel is always one of the four levels; a score >= 80 received
\* at challenge leaves the level at challenge and a score < 50 received at easy
\* leaves it at easy, however many such scores came before.
C4_LevelStaysInRange ==
    /\ difficultyLevel \in {levels[i] : i \in 1..Len(levels)}
    /\ \A i \in 1..Len(diffCalls) :
        LET c == diffCalls[i]
        IN /\ (IsHigh(c.score) /\ c.before.level = "challenge") => c.after.level = "challenge"
           /\ (IsLow(c.score) /\ c.before.level = "easy") => c.after.level = "easy"

\* C4 witness: a third high score in a row arrived at challenge.
C4_Witness ==
    \E i \in 1..Len(diffCalls) :
        /\ diffCalls[i].before.level = "challenge"
        /\ diffCalls[i].before.high >= 2
        /\ IsHigh(diffCalls[i].score)

\* C5: updateDifficultyLevel(null) leaves difficultyLevel and both counters as
\* they were, in every state and however often it is called.
C5_NullScoreChangesNothing ==
    \A i \in 1..Len(diffCalls) :
        IsNull(diffCalls[i].score) => diffCalls[i].after = diffCalls[i].before

\* C5 witness: two null scores in a row after one low score above easy, where a
\* null counted as a low score would have moved the level.
C5_Witness ==
    /\ Len(diffCalls) >= 2
    /\ LET n == Len(diffCalls)
       IN /\ IsNull(diffCalls[n - 1].score)
          /\ IsNull(diffCalls[n].score)
          /\ diffCalls[n - 1].before.low = 1
          /\ diffCalls[n - 1].before.level = "hard"

\* C6: a score in 50..79 resets both counters and leaves the level unchanged; a
\* score >= 80 zeroes consecutiveLowScores and a score < 50 zeroes
\* consecutiveHighScores.
C6_BandsResetCounters ==
    \A i \in 1..Len(diffCalls) :
        LET c == diffCalls[i]
        IN /\ IsMid(c.score) => /\ c.after.high = 0
                                /\ c.after.low = 0
                                /\ c.after.level = c.before.level
           /\ IsHigh(c.score) => c.after.low = 0
           /\ IsLow(c.score) => c.after.high = 0

\* C6 witness: a mid score broke a run of two high scores.
C6_Witness ==
    \E i \in 1..Len(diffCalls) :
        /\ IsMid(diffCalls[i].score)
        /\ diffCalls[i].before.high = 2

\* -------------------------------------------------- parser (C7 - C10)

HasScoreTag(s) == FirstMatch("score-tag", s, 1) > 0
\* The integer of the first score tag of s.
FirstScore(s) == ParseInt(ScoreTagDigits(s, FirstMatch("score-tag", s, 1)))
DifficultyOf(st) ==
    <<st.difficultyLevel, st.consecutiveHighScores, st.consecutiveLowScores>>

\* C7: for every reply that holds a score tag [SCORE:XX] with 0 <= XX <= 100
\* (the first one, when there are several), parseAndUpdateScore returns
\* score == XX, appends XX to scoreHistory, and the cleanResponse it returns
\* holds no score tag.
C7_ScoreTagParsedAndRemoved ==
    (/\ lastTurn # Null
     /\ HasScoreTag(Val(lastTurn).response)
     /\ FirstScore(Val(lastTurn).response) \in 0..100)
    => /\ Val(lastTurn).score = Some(FirstScore(Val(lastTurn).response))
       /\ scores = Append(Val(lastTurn).before.scores, FirstScore(Val(lastTurn).response))
       /\ ~HasScoreTag(Val(lastTurn).cleanResponse)

\* C8: for every reply with no score tag, whatever else it holds (a concepts
\* or feedback tag included), parseAndUpdateScore returns score == null and
\* the turn changes neither conceptMastery nor scoreHistory nor the difficulty
\* level nor the two counters.
C8_NoScoreTagNoMutation ==
    (lastTurn # Null /\ ~HasScoreTag(Val(lastTurn).response))
    => /\ Val(lastTurn).score = Null
       /\ conceptMastery = Val(lastTurn).before.conceptMastery
       /\ scores = Val(lastTurn).before.scores
       /\ DifficultyOf(Session) = DifficultyOf(Val(lastTurn).before)

\* C9: a score tag whose integer lies outside 0..100 is a parse failure: the
\* score returned is null, nothing is appended to scoreHistory and the
\* difficulty does not move, so every element of scoreHistory is in 0..100.
C9_OutOfRangeScoreRejected ==
    /\ \A i \in 1..Len(scores) : scores[i] \in 0..100
    /\ (/\ lastTurn # Null
        /\ HasScoreTag(Val(lastTurn).response)
        /\ FirstScore(Val(lastTurn).response) \notin 0..100)
       => /\ Val(lastTurn).score = Null
          /\ scores = Val(lastTurn).before.scores
          /\ DifficultyOf(Session) = DifficultyOf(Val(lastTurn).before)

\* The status the claim gives a concept score.
ClaimedStatus(n) ==
    CASE n >= 70 -> "high"
      [] n >= 50 /\ n < 70 -> "medium"
      [] n >= 1 /\ n < 50 -> "low"
      [] n = 0 -> "new"

\* C10: for every pair (name, score) of the list with 0 <= score <= 100,
\* parseConceptString leaves conceptMastery[name] = {score, status} with the
\* status of the claim's thresholds, the last such pair of a name winning, and
\* every entry no such pair names is as it was.
C10_AcceptedPairsUpserted ==
    conceptCall # Null =>
        LET pairs == Val(conceptInput).pairs
            before == Val(conceptCall).before
            accepted == {i \in 1..Len(pairs) : pairs[i].score \in 0..100}
            last == {i \in accepted : \A j \in accepted : pairs[j].name = pairs[i].name => j <= i}
            named == {pairs[i].name : i \in accepted}
        IN /\ \A i \in last :
                /\ pairs[i].name \in Keys(conceptMastery)
                /\ conceptMastery[pairs[i].name] =
                       [score |-> pairs[i].score, status |-> ClaimedStatus(pairs[i].score)]
           /\ \A name \in (Keys(before) \cup Keys(conceptMastery)) \ named :
                /\ name \in Keys(before)
                /\ name \in Keys(conceptMastery)
                /\ conceptMastery[name] = before[name]

\* C10 witness: the list named concept a twice, with scores 0 and then 69, when
\* a and b were recorded already: a is overwritten, b is as it was.
C10_Witness ==
    /\ conceptCall # Null
    /\ Val(conceptCall).before # EmptyObject
    /\ Len(Val(conceptInput).pairs) = 2
    /\ Val(conceptInput).pairs[1] = [name |-> <<"a">>, score |-> 0, layout |-> "quoted"]
    /\ Val(conceptInput).pairs[2] = [name |-> <<"a">>, score |-> 69, layout |-> "colon"]
    /\ conceptMastery[<<"a">>].score = 69
    /\ conceptMastery[<<"b">>].score = 55

\* The in-range pairs of the list given to parseConceptString.
InRange(pairs) == {i \in 1..Len(pairs) : pairs[i].score \in 0..100}

\* C11: a pair whose score is outside 0..100 adds no entry to conceptMastery
\* and changes no entry, while the in-range pairs of the list are applied:
\* after the call every entry is one that was there before or the name of an
\* in-range pair, every entry no in-range pair names is as it was, and every
\* in-range pair's name holds the score of the last in-range pair naming it.
C11_OutOfRangePairDiscarded ==
    conceptCall # Null =>
        LET pairs == Val(conceptInput).pairs
            before == Val(conceptCall).before
            named == {pairs[i].name : i \in InRange(pairs)}
        IN /\ Keys(conceptMastery) \subseteq Keys(before) \cup named
           /\ \A name \in Keys(before) \ named :
                 name \in Keys(conceptMastery) /\ conceptMastery[name] = before[name]
           /\ \A i \in InRange(pairs) :
                 (\A j \in InRange(pairs) : pairs[j].name = pairs[i].name => j <= i)
                 => /\ pairs[i].name \in Keys(conceptMastery)
                    /\ conceptMastery[pairs[i].name].score = pairs[i].score

\* C12: when the opening question is received, conversationHistory is that one
\* assistant turn, questionCount is 1, scores is empty, hintsUsed is 0, the
\* level is medium with both counters 0 and conceptMastery is empty.
C12_OpeningLeavesFreshSession ==
    [][OpeningArrives =>
          /\ conversationHistory' = <<[role |-> "assistant", content |-> OpeningQuestion]>>
          /\ questionCount' = 1
          /\ scores' = <<>>
          /\ hintsUsed' = 0
          /\ difficultyLevel' = "medium"
          /\ consecutiveHighScores' = 0
          /\ consecutiveLowScores' = 0
          /\ conceptMastery' = EmptyObject]_vars

\* --------------------------------------------------------- turns (C13-C15)

Last(s) == s[Len(s)]

\* C13: a turn appends its user turn when it starts and leaves questionCount
\* alone; when its AI call returns, the user turn is the last entry, the
\* cleaned reply is appended after it as the assistant turn, and
\* questionCount goes up by exactly 1.
C13_TurnAppendsTwoEntries ==
    [][/\ (SendResponse /\ turns' # turns) =>
             /\ conversationHistory' =
                   Append(conversationHistory,
                          [role |-> "user", content |-> Trim(studentResponse)])
             /\ questionCount' = questionCount
       /\ (NeedHint /\ turns' # turns) =>
             /\ conversationHistory' =
                   Append(conversationHistory,
                          [role |-> "user", content |-> <<HintMarker>> \o DefaultHintText])
             /\ questionCount' = questionCount
       /\ \A reply \in ScenarioReplies :
             TurnCompletes(reply) =>
                /\ Last(conversationHistory).role = "user"
                /\ conversationHistory' =
                      Append(conversationHistory,
                             [role |-> "assistant", content |-> CleanResponse(reply)])
                /\ questionCount' = questionCount + 1]_vars

\* C13 witness: an answer turn has completed in the new session: the history
\* is the opening question, the answer and the reply.
C13_Witness ==
    /\ lastTurn # Null
    /\ ~Val(lastTurn).isHint
    /\ questionCount = 2
    /\ Len(conversationHistory) = 3
    /\ conversationHistory[2] = [role |-> "user", content |-> <<"b">>]
    /\ conversationHistory[3].role = "assistant"

\* The session is as the scenario has it: the first answer of a started
\* session received the scenario's reply, and no turn has started since.
ScenarioDone ==
    /\ lastTurn # Null
    /\ Val(lastTurn).response = ScenarioReply
    /\ ~Val(lastTurn).isHint
    /\ Val(lastTurn).before.questionCount = 1
    /\ Len(Val(lastTurn).before.conversationHistory) = 2
    /\ Len(conversationHistory) = 3

Orbits == <<"o", "r", "b", "i", "t", "s">>

\* The scenario's outcome, but for the status of the concept.
ScenarioOutcome(conceptStatus) ==
    /\ questionCount = 2
    /\ scores = <<72>>
    /\ conceptMastery = (Orbits :> [score |-> 70, status |-> conceptStatus])
    /\ DifficultyOf(Session) = DifficultyOf(Val(lastTurn).before)
    /\ \A k \in 1..Len(Val(lastTurn).cleanResponse) :
          Val(lastTurn).cleanResponse[k] \notin {"[", "]"}
    /\ Last(conversationHistory).content = Val(lastTurn).cleanResponse

\* C14 as the scenario states it: questionCount is 2, the scores are [72],
\* conceptMastery is {orbits: {score 70, status medium}}, the difficulty is
\* unchanged and the displayed reply has no bracket.
C14_ScenarioAsStated == ScenarioDone => ScenarioOutcome("medium")

\* C14, with the status the thresholds give a score of 70: questionCount is
\* 2, the scores are [72], conceptMastery is {orbits: {score 70, status
\* high}}, the difficulty is unchanged and the displayed reply has no bracket.
C14_ScenarioStatusHigh == ScenarioDone => ScenarioOutcome("high")

\* C14 witness: the scenario has run.
C14_Witness == ScenarioDone /\ Val(lastTurn).cleanResponse = <<>>

PhaseEdges ==
    {<<"setup", "topic">>, <<"topic", "chat">>, <<"chat", "summary">>,
     <<"summary", "setup">>}

\* C16: the screen shown changes along the phase edges only, whatever the
\* order of clicks and completions.
C16_PhasesAreLinear ==
    [][screen' # screen => <<screen, screen'>> \in PhaseEdges]_vars

\* C17: once the session has ended (the summary screen is shown), no turn
\* changes a field of the ended session: a step that starts or finishes a
\* turn while the summary screen is shown leaves SessionState as it was.
C17_EndedSessionIsFrozen ==
    [][(screen = "summary" /\ turns' # turns) => sessionVars' = sessionVars]_vars

\* C18: generateSessionSummary does not fail and what it returns has all five
\* fields: it is the object of the reply when the call succeeded and the
\* reply's JSON parses to an object with the five fields, and the fallback
\* assessment in every other case.
C18_SummaryHasAllFields ==
    summaries = 0 =>
        LET assessment == GenerateSessionSummary(aiReply, currentTopic)
            complete == /\ aiReply.ok /\ aiReply.braces /\ aiReply.parses
                        /\ aiReply.fields = SummaryFields
        IN /\ assessment # Throws
           /\ assessment.fields = SummaryFields
           /\ assessment.source = (IF complete THEN "model" ELSE "fallback")

\* The per-session fields but conversationHistory have their initial values.
CountersAreInitial(st) ==
    /\ st.questionCount = 0
    /\ st.scores = <<>>
    /\ st.hintsUsed = 0
    /\ st.difficultyLevel = "medium"
    /\ st.consecutiveHighScores = 0
    /\ st.consecutiveLowScores = 0
    /\ st.conceptMastery = EmptyObject

\* The session ends: the summary screen comes up.
SummaryComesUp == screen # "summary" /\ screen' = "summary"

C20_TruncatedAtLimit ==
    (curriculumCall # Null /\ Val(curriculumCall).response.ok) =>
        LET combined == CombinedContent(Val(curriculumCall).response.items, currentTopic, 6)
            result == Val(curriculumCall).result
        IN IF Len(combined) <= CurriculumLimit
           THEN result = combined
           ELSE result = SubSeq(combined, 1, CurriculumLimit) \o TruncationMarker

\* -------------------------------------------------- session start (C21, C30)

\* The responses the last fetch phase received were all not ok.
AllFetchesFailed ==
    /\ curriculumCall # Null
    /\ \A k \in 1..Len(Val(curriculumCall).responses) : ~Val(curriculumCall).responses[k].ok

C30_CurriculumBounded ==
    Len(sessionCurriculum) <= CurriculumLimit + Len(TruncationMarker)

\* ------------------------------------------------------- the credential (C22)

\* The voiceSend calls whose audio is with Whisper.
AtWhisper(jobs) == {j \in 1..Len(jobs) : jobs[j].at = "whisper"}

\* A request goes out to the AI provider in this step: a callAI call of a
\* turn, an opening question, a summary or a topic search, or a transcription.
RequestSent ==
    \/ Len(turns') > Len(turns)
    \/ openings' > openings
    \/ summaries' > summaries
    \/ topicSearches' > topicSearches
    \/ Cardinality(AtWhisper(voiceJobs')) > Cardinality(AtWhisper(voiceJobs))

\* No request goes out while no valid key is stored.
RequestsNeedKey == [][RequestSent => apiKey # Null]_vars

\* C22: the page leaves the setup screen only with a valid key stored, and no
\* request goes out to the AI provider while no valid key is stored.
C22_KeyGuardsSession ==
    [][ /\ (screen = "setup" /\ screen' # "setup") => apiKey' # Null
        /\ RequestSent => apiKey # Null ]_vars

\* ------------------------------------------------------ score samples (C23)

\* C23: while the session is chatting, each completed student turn has added
\* one sample: the score list is one shorter than questionCount.
C23_OneSamplePerTurn ==
    (screen = "chat" /\ questionCount >= 1) => Len(scores) = questionCount - 1

\* ------------------------------------------------- concept mastery (C24-C26)

\* C24: within a session no step removes a concept name from conceptMastery:
\* the names recorded before a step are recorded after it.
C24_ConceptsNeverRemoved ==
    [][Keys(conceptMastery) \subseteq Keys(conceptMastery')]_vars

\* C24 witness: a concept was recorded when the turn began, the reply named
\* another one, and both are recorded.
C24_Witness ==
    /\ lastTurn # Null
    /\ Keys(Val(lastTurn).before.conceptMastery) # {}
    /\ Keys(conceptMastery) # Keys(Val(lastTurn).before.conceptMastery)
    /\ Keys(Val(lastTurn).before.conceptMastery) \subseteq Keys(conceptMastery)

\* C25: every entry of conceptMastery has a score in 0..100 and the status
\* the thresholds give that score.
C25_EntriesInRangeWithStatus ==
    \A name \in Keys(conceptMastery) :
        /\ conceptMastery[name].score \in 0..100
        /\ conceptMastery[name].status = ClaimedStatus(conceptMastery[name].score)

\* The student turns of the history that received their reply.
CompletedTurns(history) ==
    {i \in 2..Len(history) : history[i].role = "assistant" /\ history[i - 1].role = "user"}

\* C26: after a turn whose reply held a score, whose concept tags left
\* conceptMastery empty and which was not the first student turn to complete,
\* conceptMastery is the one concept "<topic name> basics" with that score;
\* after any other turn it is what the concept tags left.
C26_BasicsConceptSynthesized ==
    lastTurn # Null =>
        LET before == Val(lastTurn).before
            concepts == MatchedConcepts(Val(lastTurn).response)
            parsed == IF IsNull(concepts) THEN before.conceptMastery
                      ELSE ParseConceptString(before.conceptMastery, Val(concepts))
            name == <<ScienceTopics[before.currentTopic], " basics">>
        IN IF /\ ~IsNull(Val(lastTurn).score)
              /\ Keys(parsed) = {}
              /\ CompletedTurns(before.conversationHistory) # {}
           THEN /\ Keys(conceptMastery) = {name}
                /\ conceptMastery[name].score = Val(Val(lastTurn).score)
           ELSE conceptMastery = parsed

\* ----------------------------------------------------------- hint turns (C27)

\* C27: a hint turn pushes a user turn that is the hint marker followed by
\* the student's text or the default sentence; when its reply arrives, the
\* scores, the concepts and the difficulty state become what an answer turn
\* with that reply would have made them, and hintsUsed goes up by 1; on every
\* other step (an answer turn, a failed turn of either kind) hintsUsed stays.
C27_HintTurnScoredLikeAnswer ==
    [][ /\ (Len(turns') > Len(turns) /\ Last(turns').isHint) =>
             LET text == Trim(studentResponse)
             IN /\ conversationHistory' \in
                      { Append(conversationHistory,
                               [role |-> "user", content |-> <<HintMarker>> \o t]) :
                        t \in {DefaultHintText} \cup ({text} \ {<<>>}) }
                /\ hintsUsed' = hintsUsed
        /\ (Len(turns') < Len(turns) /\ questionCount' > questionCount) =>
             LET asAnswer == FinishTurn(Session, Val(lastTurn').response, FALSE)
             IN /\ scores' = asAnswer.scores
                /\ conceptMastery' = asAnswer.conceptMastery
                /\ DifficultyOf(Session') = DifficultyOf(asAnswer)
                /\ hintsUsed' = IF turns[1].isHint THEN hintsUsed + 1 ELSE hintsUsed
        /\ (Len(turns') < Len(turns) /\ questionCount' = questionCount) =>
             hintsUsed' = hintsUsed
        /\ Len(turns') = Len(turns) => hintsUsed' = hintsUsed ]_vars

\* C27 witness: a hint turn received a reply with a high score: the score is
\* kept, the run of high scores has begun and one hint is counted.
C27_Witness ==
    /\ lastTurn # Null
    /\ Val(lastTurn).isHint
    /\ Val(lastTurn).score = Some(85)
    /\ scores = <<85>>
    /\ consecutiveHighScores = 1
    /\ hintsUsed = 1

\* ------------------------------------------------------ history sent (C28)

\* C28: the history a student turn sends to callAI begins with the
\* assistant's opening question, holds no seed prompt, alternates between
\* assistant and user, and ends with the new user turn.
C28_HistoryAlternates ==
    [][ Len(turns') > Len(turns) =>
          LET history == conversationHistory'
          IN /\ history[1].role = "assistant"
             /\ \A i \in 1..Len(history) :
                   /\ history[i].content # SeedPrompt
                   /\ history[i].role = IF i % 2 = 1 THEN "assistant" ELSE "user"
             /\ Last(history).role = "user" ]_vars

\* ------------------------------------------------- summary comes up (C29)

\* C29: once End Session is under way, the summary screen comes up in the
\* end, whatever the summary call returns.
C29_SummaryReached == (summaries > 0) ~> (screen = "summary")

\* ------------------------------------------------------- control tags (C31)

\* The text holds something the cleaning chain removes: a score, concepts or
\* feedback tag, or a concepts or feedback line.
HasControlTag(s) ==
    \E pattern \in {"score-tag", "concepts-tag", "feedback-tag", "concepts-line",
                     "feedback-line"} : FirstMatch(pattern, s, 1) > 0

\* C31: no assistant turn of conversationHistory, the opening question
\* included, holds a control tag.
C31_StoredTurnsAreClean ==
    \A i \in 1..Len(conversationHistory) :
        conversationHistory[i].role = "assistant" =>
            ~HasControlTag(conversationHistory[i].content)

\* ------------------------------------------------- voice input (C32 - C34)

\* The changes of VoiceState.status along the edges of the voice state
\* machine: idle to recording, recording to paused and back, recording or
\* paused to transcribing, and any status to idle.
StatusEdge ==
    \/ status' = status
    \/ status = "idle" /\ status' = "recording"
    \/ status = "recording" /\ status' = "paused"
    \/ status = "paused" /\ status' = "recording"
    \/ status \in {"recording", "paused"} /\ status' = "transcribing"
    \/ status' = "idle"

\* C32: VoiceState.status changes only along the edges of the voice state
\* machine.
C32_StatusFollowsEdges == [][StatusEdge]_vars

\* A voiceSend call ends by sending the transcript it received as the
\* student's answer.
TranscriptSubmitted ==
    /\ Len(voiceJobs') < Len(voiceJobs)
    /\ conversationHistory' # conversationHistory

\* C33: a transcript is submitted only while its recording is still being
\* transcribed, never after voiceCancel has put the status back to idle, and
\* the status leaves idle only when a voiceStart call obtains the microphone.
C33_CancelDropsTranscript ==
    [][/\ TranscriptSubmitted => status = "transcribing"
       /\ status = "idle" /\ status' # "idle" => micRequests' < micRequests]_vars

\* C34: while the status is idle VoiceState holds no microphone stream and no
\* running recorder.
C34_IdleHoldsNoStream ==
    status = "idle" => ~micStream /\ mediaRecorder \notin {"recording", "paused"}

\* ------------------------------------------------ difficulty counters (C35)

\* C35: at most one of consecutiveHighScores and consecutiveLowScores is not
\* zero, consecutiveHighScores is below 3 unless the level is challenge, and
\* consecutiveLowScores is below 2 unless the level is easy.
C35_CountersConsistent ==
    /\ consecutiveHighScores = 0 \/ consecutiveLowScores = 0
    /\ consecutiveHighScores < 3 \/ difficultyLevel = "challenge"
    /\ consecutiveLowScores < 2 \/ difficultyLevel = "easy"

\* A low score followed a run of three high scores at the top level.
C35_Witness ==
    /\ Len(diffCalls) >= 1
    /\ diffCalls[Len(diffCalls)].before.level = "challenge"
    /\ diffCalls[Len(diffCalls)].before.high >= 3
    /\ consecutiveLowScores = 1

\* ------------------------------------------------------ primary topic (C36)

\* C36: while the chat or the summary screen is up, currentTopic is a key of
\* ScienceTopics.
C36_TopicIsCatalogKey ==
    screen \in {"chat", "summary"} => currentTopic \in DOMAIN ScienceTopics

\* ------------------------------------------------- admin data (C37 - C39)

\* The last call, when it was op and found its item: the data before and
\* after it and the place of the item.
CallFound(op) ==
    /\ adminCall # Null
    /\ Val(adminCall).op = op
    /\ FindIndex(Val(adminCall).before.curriculumData, Val(adminCall).itemId) > 0

\* C37: deleteCurriculumItem with an existing id keeps the item in
\* curriculumData, with isActive false and no field but updatedAt changed;
\* an item that is not active is not among the exported items, the rendered
\* items and the items counted, and an update leaves it inactive.
C37_SoftDelete ==
    /\ CallFound("delete") =>
          LET c == Val(adminCall)
              b == c.before.curriculumData
              a == c.after.curriculumData
              index == FindIndex(b, c.itemId)
          IN /\ Len(a) = Len(b)
             /\ a[index] = [b[index] EXCEPT !.isActive = FALSE,
                                            !.updatedAt = a[index].updatedAt]
             /\ \A k \in 1..Len(ExportedItems(a)) : ExportedItems(a)[k].id # c.itemId
             /\ \A k \in 1..Len(RenderedItems(a, "", 0)) :
                    RenderedItems(a, "", 0)[k].id # c.itemId
             /\ UpdateStats(a).total < Len(a)
    /\ CallFound("update") =>
          LET c == Val(adminCall)
              b == c.before.curriculumData
              a == c.after.curriculumData
          IN \A i \in 1..Len(b) : ~b[i].isActive => ~a[i].isActive
    /\ \A i \in 1..Len(curriculumData) :
          ~curriculumData[i].isActive =>
              /\ \A k \in 1..Len(ExportedItems(curriculumData)) :
                     ExportedItems(curriculumData)[k] # curriculumData[i]
              /\ \A k \in 1..Len(RenderedItems(curriculumData, "", 0)) :
                     RenderedItems(curriculumData, "", 0)[k] # curriculumData[i]

\* An item that was deleted has been updated.
C37_Witness ==
    /\ CallFound("update")
    /\ LET c == Val(adminCall)
           index == FindIndex(c.before.curriculumData, c.itemId)
       IN /\ ~c.before.curriculumData[index].isActive
          /\ c.after.curriculumData[index].title # c.before.curriculumData[index].title

\* C38: update and delete called with an id that is not in curriculumData
\* return false and leave curriculumData and hasUnsavedChanges as they are;
\* called with an id that is, they return true, change that item only and set
\* hasUnsavedChanges.
C38_OnlyThatItem ==
    adminCall # Null =>
        LET c == Val(adminCall)
            b == c.before.curriculumData
            a == c.after.curriculumData
            index == FindIndex(b, c.itemId)
        IN IF index = 0
           THEN ~c.returned /\ c.after = c.before
           ELSE /\ c.returned
                /\ c.after.hasUnsavedChanges
                /\ Len(a) = Len(b)
                /\ \A i \in 1..Len(b) : i # index => a[i] = b[i]

\* An update with an id that is not in the data, which holds an item and has
\* no unsaved change.
C38_Witness ==
    /\ adminCall # Null
    /\ Val(adminCall).op = "update"
    /\ ~Val(adminCall).returned
    /\ Val(adminCall).before.curriculumData # <<>>
    /\ ~Val(adminCall).before.hasUnsavedChanges

\* C39: while hasUnsavedChanges is false, curriculumData is the data that
\* lastLoadedData is the snapshot of.
C39_CleanMeansSnapshot ==
    ~hasUnsavedChanges /\ lastLoadedData # Null => lastLoadedData = Some(curriculumData)

\* -------------------------------------------------------- saved items (C40)

\* The item has a title, content, a topic and a grade.
Complete(d) ==
    /\ d.title # <<>>
    /\ d.content # <<>>
    /\ d.topics # <<>>
    /\ d.grades # <<>>

\* C40: every item of curriculumData, all of them loaded complete or saved
\* through handleSave, has a title, content, a topic and a grade.
C40_SavedItemsComplete ==
    \A i \in 1..Len(curriculumData) : Complete(curriculumData[i])

====
